---- MODULE Spec2Model ----
\* Rebel core: value collector, bytecode compiler and stack VM (src/src/vm.rs,
\* src/src/stdlib.rs) over the arena memory described in spec.md sections 3-4.1.
EXTENDS Integers, Sequences, FiniteSets, TLC

\* ---------------------------------------------------------------------------
\* Program constants
\* ---------------------------------------------------------------------------

\* Code::* opcodes
Code_RET == 0
Code_CONST == 1
Code_NONE == 2
Code_WORD == 3
Code_SET_WORD == 4
Code_LEAVE == 5
Code_CALL_NATIVE == 6
Code_CALL_FUNC == 7

\* Value kinds (the closed set of spec.md section 3, in table order; INT = 1
\* is fixed by the bytecode example of section 6)
Value_NONE == 0
Value_INT == 1
Value_FLOAT == 2
Value_BOOL == 3
Value_STRING == 4
Value_BLOCK == 5
Value_PATH == 6
Value_WORD == 7
Value_SET_WORD == 8
Value_GET_WORD == 9
Value_NATIVE_FUNC == 10
Value_FUNC == 11

\* Fixed capacities of the transient ArrayStacks
StackCap == 64
CallStackCap == 64
DeferCap == 64
ByteCodeCap == 1024
CollectorCap == 256

\* Arena geometry
MemSize == 65536
BlockSize == 12
ValueSize == 8
NativeFuncSize == 8
FuncSize == 8
TableEntries == 1024
WordEntrySize == 12
MemHeaderSize == 16

I32Max == 2147483647
I32Min == (-2147483647) - 1
ShortMod == 65536

\* ---------------------------------------------------------------------------
\* Bounds of the model
\* ---------------------------------------------------------------------------
MaxLen == 2
MaxCalls == 2

\* the driver calls exec again after an exec that returned an error
MaxRetries == 1

\* ---------------------------------------------------------------------------
\* Values and errors
\* ---------------------------------------------------------------------------
Val(k, d) == [kind |-> k, data |-> d]

ValueNone == Val(Value_NONE, 0)

ValueInt(i) == Val(Value_INT, i)

ValueBool(b) == Val(Value_BOOL, IF b THEN 1 ELSE 0)

NoError == "none"

\* ---------------------------------------------------------------------------
\* u32 immediates: u32::to_ne_bytes / read_u32 (little-endian host).  A u32 is
\* carried as the i32 with the same bit pattern.
\* ---------------------------------------------------------------------------
ByteOf(x, k) ==
    LET p == IF k = 0 THEN 1 ELSE IF k = 1 THEN 256 ELSE IF k = 2 THEN 65536 ELSE 16777216
    IN  IF x >= 0 THEN (x \div p) % 256
        ELSE 255 - (((-(x + 1)) \div p) % 256)

ToBytes4(x) == << ByteOf(x, 0), ByteOf(x, 1), ByteOf(x, 2), ByteOf(x, 3) >>

FromBytes4(b) ==
    IF b[4] < 128
    THEN b[1] + 256 * b[2] + 65536 * b[3] + 16777216 * b[4]
    ELSE -((255 - b[1]) + 256 * (255 - b[2]) + 65536 * (255 - b[3]) + 16777216 * (255 - b[4])) - 1

ToBytes2(x) == << x % 256, (x \div 256) % 256 >>

FromBytes2(b) == b[1] + 256 * b[2]

\* ---------------------------------------------------------------------------
\* ArrayStack<T, N>
\* ---------------------------------------------------------------------------
\* push without the capacity check
ArrayStackPushUnchecked(s, v, N) == [ok |-> TRUE, s |-> Append(s, v)]

ArrayStackPush(s, v, N) ==
    IF Len(s) < N THEN [ok |-> TRUE, s |-> Append(s, v)]
    ELSE [ok |-> FALSE, s |-> s]

ArrayStackExtend(s, vs, N) ==
    IF Len(s) + Len(vs) <= N THEN [ok |-> TRUE, s |-> s \o vs]
    ELSE [ok |-> FALSE, s |-> s]

ArrayStackPop(s) ==
    IF Len(s) > 0 THEN [ok |-> TRUE, s |-> SubSeq(s, 1, Len(s) - 1), v |-> s[Len(s)]]
    ELSE [ok |-> FALSE, s |-> s, v |-> ValueNone]

\* a nip that truncates without moving the top element down
ArrayStackNipNoCopy(s, n) ==
    IF n = 0 \/ Len(s) = 0 \/ n > Len(s) THEN [ok |-> FALSE, s |-> s]
    ELSE [ok |-> TRUE, s |-> SubSeq(s, 1, Len(s) - n + 1)]

ArrayStackNip(s, n) ==
    IF n = 0 \/ Len(s) = 0 \/ n > Len(s) THEN [ok |-> FALSE, s |-> s]
    ELSE [ok |-> TRUE, s |-> Append(SubSeq(s, 1, Len(s) - n), s[Len(s)])]

\* pop_n handing out the values top first
ArrayStackPopNReversed(s, m) ==
    IF Len(s) >= m
    THEN [ok |-> TRUE, s |-> SubSeq(s, 1, Len(s) - m),
          vs |-> [k \in 1..m |-> s[Len(s) - k + 1]]]
    ELSE [ok |-> FALSE, s |-> s, vs |-> << >>]

ArrayStackPopN(s, m) ==
    IF Len(s) >= m
    THEN [ok |-> TRUE, s |-> SubSeq(s, 1, Len(s) - m), vs |-> SubSeq(s, Len(s) - m + 1, Len(s))]
    ELSE [ok |-> FALSE, s |-> s, vs |-> << >>]

\* ---------------------------------------------------------------------------
\* Standard library table
\* ---------------------------------------------------------------------------
\* a descriptor that pops exactly its arity, operator or not
NativeDescriptorNormal(name, description, func, arity, consume) ==
    [name |-> name, description |-> description, func |-> func,
     arity |-> arity, consume |-> arity]

NativeDescriptor(name, description, func, arity, consume) ==
    [name |-> name, description |-> description, func |-> func,
     arity |-> arity, consume |-> consume]

NATIVES ==
    << NativeDescriptor("add", "add two numbers function", "add", 2, 2),
       NativeDescriptor("+", "add two numbers operator", "add", 1, 2),
       NativeDescriptor("lt", "less than function", "lt", 2, 2),
       NativeDescriptor("<", "less than operator", "lt", 1, 2),
       NativeDescriptor("either", "execute one of two blocks", "either", 3, 3),
       NativeDescriptor("func", "create a function", "func", 2, 2) >>

\* ---------------------------------------------------------------------------
\* Memory: the arena, the symbol table and the binding table (system_words)
\* ---------------------------------------------------------------------------
EmptyFn == << >>

Round4(n) == ((n + 3) \div 4) * 4

SymbolTableAddr == MemHeaderSize

SystemWordsAddr == SymbolTableAddr + BlockSize + TableEntries * 4

SystemWordsData == SystemWordsAddr + BlockSize

HeapStart == SystemWordsData + TableEntries * WordEntrySize

Object(tag, items) == [tag |-> tag, items |-> items, bindings |-> 0]

MemoryNew ==
    [heap_top |-> HeapStart, heap |-> EmptyFn, symbols |-> EmptyFn, words |-> EmptyFn]

\* bump allocation of one Block: header plus payload rounded up to 4 bytes
MemAlloc(m, obj, bytes) ==
    LET top == m.heap_top + BlockSize + Round4(bytes)
    IN  IF top > MemSize
        THEN [err |-> "OutOfMemory", m |-> m, addr |-> 0]
        ELSE [err |-> NoError,
              m |-> [m EXCEPT !.heap_top = top, !.heap = (m.heap_top :> obj) @@ m.heap],
              addr |-> m.heap_top]

AllocItems(m, tag, items, size) == MemAlloc(m, Object(tag, items), Len(items) * size)

AllocString(m, text) == MemAlloc(m, Object("string", << text >>), Len(text))

AllocStruct(m, tag, fields, size) == MemAlloc(m, Object(tag, fields), size)

GetOrAddSymbol(m, name) ==
    IF name \in DOMAIN m.symbols
    THEN [err |-> NoError, m |-> m, addr |-> m.symbols[name]]
    ELSE LET a == AllocString(m, name)
         IN  IF a.err # NoError THEN a
             ELSE [a EXCEPT !.m.symbols = (name :> a.addr) @@ m.symbols]

\* binding table: open addressing, hash = symbol address * 0x9E3779B9 (mod 2^32),
\* slot = hash mod capacity; only the low ten bits of the product matter
WordHash(sym) == ((sym % TableEntries) * 441) % TableEntries

RECURSIVE WordProbe(_, _, _, _)
WordProbe(words, sym, slot, tries) ==
    IF tries = 0 THEN -1
    ELSE IF slot \notin DOMAIN words THEN slot
    ELSE IF words[slot].sym = sym THEN slot
    ELSE WordProbe(words, sym, (slot + 1) % TableEntries, tries - 1)

WordSlot(m, sym) == WordProbe(m.words, sym, WordHash(sym), TableEntries)

CellAddress(slot) == SystemWordsData + slot * WordEntrySize + 4

CellSlot(addr) == (addr - SystemWordsData - 4) \div WordEntrySize

IsCell(m, addr) ==
    /\ addr >= SystemWordsData + 4
    /\ addr < HeapStart
    /\ (addr - SystemWordsData - 4) % WordEntrySize = 0
    /\ CellSlot(addr) \in DOMAIN m.words

GetWord(m, sym) ==
    LET slot == WordSlot(m, sym)
    IN  IF slot >= 0 /\ slot \in DOMAIN m.words
        THEN [err |-> NoError, v |-> m.words[slot].value]
        ELSE [err |-> "WordNotFound", v |-> ValueNone]

\* a bind_word that creates a new cell whenever it is asked to create
BindWordAgain(m, sym, create) ==
    LET slot == WordSlot(m, sym)
        free == WordProbe(m.words, -1, WordHash(sym), TableEntries)
    IN  IF create
        THEN IF free < 0 THEN [err |-> "OutOfMemory", m |-> m, addr |-> 0]
             ELSE [err |-> NoError,
                   m |-> [m EXCEPT !.words = (free :> [sym |-> sym, value |-> ValueNone]) @@ m.words],
                   addr |-> CellAddress(free)]
        ELSE IF slot >= 0 /\ slot \in DOMAIN m.words
        THEN [err |-> NoError, m |-> m, addr |-> CellAddress(slot)]
        ELSE [err |-> "WordNotFound", m |-> m, addr |-> 0]

BindWord(m, sym, create) ==
    LET slot == WordSlot(m, sym)
    IN  IF slot >= 0 /\ slot \in DOMAIN m.words
        THEN [err |-> NoError, m |-> m, addr |-> CellAddress(slot)]
        ELSE IF ~create THEN [err |-> "WordNotFound", m |-> m, addr |-> 0]
        ELSE IF slot < 0 THEN [err |-> "OutOfMemory", m |-> m, addr |-> 0]
        ELSE [err |-> NoError,
              m |-> [m EXCEPT !.words = (slot :> [sym |-> sym, value |-> ValueNone]) @@ m.words],
              addr |-> CellAddress(slot)]

\* a set_word that stores into the first slot of the symbol without probing
SetWordFirstSlot(m, sym, v) ==
    [err |-> NoError,
     m |-> [m EXCEPT !.words = (WordHash(sym) :> [sym |-> sym, value |-> v]) @@ m.words]]

SetWord(m, sym, v) ==
    LET b == BindWord(m, sym, TRUE)
    IN  IF b.err # NoError THEN [err |-> b.err, m |-> m]
        ELSE [err |-> NoError,
              m |-> [b.m EXCEPT !.words[CellSlot(b.addr)].value = v]]

\* typed reads through an address
GetCell(m, addr) ==
    IF IsCell(m, addr) THEN [err |-> NoError, v |-> m.words[CellSlot(addr)].value]
    ELSE [err |-> "OutOfBounds", v |-> ValueNone]

SetCell(m, addr, v) ==
    IF IsCell(m, addr)
    THEN [err |-> NoError, m |-> [m EXCEPT !.words[CellSlot(addr)].value = v]]
    ELSE [err |-> "OutOfBounds", m |-> m]

HasTag(m, addr, tag) == addr \in DOMAIN m.heap /\ m.heap[addr].tag = tag

\* ---------------------------------------------------------------------------
\* Vm::new: register the natives
\* ---------------------------------------------------------------------------
RECURSIVE RegisterNatives(_, _, _)
RegisterNatives(vm, table, i) ==
    IF i > Len(NATIVES) \/ vm.err # NoError THEN vm
    ELSE LET native == NATIVES[i]
             s == GetOrAddSymbol(vm.memory, native.name)
             d == IF s.err # NoError THEN s ELSE AllocString(s.m, native.description)
             id == Len(vm.natives)
             address == table + BlockSize + id * NativeFuncSize
             m1 == [d.m EXCEPT !.heap =
                        (address :> Object("native", << id, native.arity, native.consume >>)) @@ d.m.heap]
             w == IF d.err # NoError THEN [err |-> d.err, m |-> d.m]
                  ELSE SetWord(m1, s.addr, Val(Value_NATIVE_FUNC, address))
         IN  RegisterNatives([memory |-> w.m,
                              natives |-> Append(vm.natives, native.func),
                              err |-> w.err], table, i + 1)

VmNew ==
    LET t == MemAlloc(MemoryNew, Object("natives", << >>), Len(NATIVES) * NativeFuncSize)
    IN  RegisterNatives([memory |-> t.m, natives |-> << >>, err |-> t.err], t.addr, 1)

\* ---------------------------------------------------------------------------
\* Source programs: the event sequences the parser hands to the collector
\* ---------------------------------------------------------------------------
Tok(t, n, v) == [t |-> t, n |-> n, v |-> v]

TInt(v) == Tok("int", "", v)

TFloat(bits) == Tok("float", "", bits)

TStr(text) == Tok("string", text, 0)

TWord(n) == Tok("word", n, 0)

TSet(n) == Tok("setword", n, 0)

LB == Tok("[", "", 0)

RB == Tok("]", "", 0)

BP == Tok("path", "", 0)

EP == Tok("endpath", "", 0)

\* the programs of test_exec_simple (vm.rs 1088-1112)
EitherProgram(a, b, t, f) ==
    << TWord("either"), TInt(a), TWord("<"), TInt(b), LB >> \o t \o << RB, LB >> \o f \o << RB >>

\* the blocks given to `either` in test_exec_simple
EitherBlocks == { << TInt(42) >>, << TInt(1), TInt(2), TInt(3) >>,
                  << TInt(22), TInt(7), TWord("+"), TInt(8) >> }

EitherPrograms ==
    { EitherProgram(c[1], c[2], b[1], b[2]) :
        c \in { << 5, 10 >>, << 15, 1 >> },
        b \in { p \in EitherBlocks \X EitherBlocks : p[1] # p[2] } }

TestPrograms ==
    { << TInt(1), TInt(2), TInt(3) >>,
      << TSet("x"), TSet("y"), TInt(42), TSet("z"), TInt(5), TWord("y") >>,
      << TSet("x"), TInt(5), TWord("x") >>,
      << TWord("add"), TWord("add"), TInt(7), TInt(8), TInt(10) >>,
      << TInt(5), TWord("+"), TInt(5) >>,
      << TInt(5), TWord("<"), TInt(10) >>,
      EitherProgram(5, 10, << TInt(42) >>, << TInt(24) >>),
      EitherProgram(15, 1, << TInt(42) >>, << TInt(24) >>),
      EitherProgram(5, 10, << TInt(1), TInt(2), TInt(3) >>, << TInt(24) >>),
      EitherProgram(15, 1, << TInt(42) >>, << TInt(22), TInt(7), TWord("+"), TInt(8) >>),
      EitherProgram(5, 10, << TInt(1), TInt(2), TInt(3) >>, << TInt(24) >>)
        \o EitherProgram(15, 1, << TInt(42) >>, << TInt(22), TInt(7), TWord("+"), TInt(8) >>),
      << TWord("some_word") >> }

\* programs of every shape up to MaxLen tokens
Alphabet == { TInt(1), TWord("x"), TSet("x"), TWord("+"), TWord("add"), LB, RB }

EnumPrograms == UNION { [1..k -> Alphabet] : k \in 0..MaxLen }

\* additions at and around the ends of the i32 range (stdlib.rs 6-15)
BoundaryInts == { I32Min, -1, 0, 1, I32Max }

ArithPrograms ==
    { << TInt(a), TWord("+"), TInt(b) >> : a, b \in BoundaryInts }
      \cup { << TWord("add"), TInt(a), TInt(b) >> : a, b \in BoundaryInts }

\* `a < b` (stdlib.rs 17-25)
LtPrograms == { << TInt(a), TWord("<"), TInt(b) >> : a, b \in BoundaryInts }

\* nested calls of the prefix natives, each with exactly `arity` operands
\* (vm.rs 967-999, 1097)
PrefixLeaves == { << TInt(7) >>, << TInt(10) >> }

PrefixCall(op, a, b) == << TWord(op) >> \o a \o b

PrefixExprs1 == { PrefixCall(op, a, b) : op \in { "add", "lt" }, a, b \in PrefixLeaves }

PrefixExprs2 ==
    { PrefixCall(op, a, b) : op \in { "add", "lt" }, a \in PrefixExprs1, b \in PrefixLeaves }
      \cup { PrefixCall(op, a, b) : op \in { "add", "lt" }, a \in PrefixLeaves, b \in PrefixExprs1 }
      \cup { PrefixCall("add", a, b) : a, b \in { PrefixCall("add", << TInt(7) >>, << TInt(8) >>),
                                                  PrefixCall("add", << TInt(10) >>, << TInt(1) >>) } }

PrefixPrograms ==
    PrefixExprs1 \cup PrefixExprs2
      \cup { << TWord("add"), TWord("add"), TWord("add"), TInt(1), TInt(2), TInt(3), TInt(4) >>,
             << TWord("add"), TInt(1), TWord("add"), TInt(2), TWord("add"), TInt(3), TInt(4) >>,
             << TWord("add"), TInt(1), TInt(2), TWord("lt"), TInt(3), TInt(4) >>,
             << TInt(5), TWord("add"), TInt(1), TInt(2) >> }

\* `x: V x` for a literal of each kind the parser produces (vm.rs 1094)
LiteralPrograms ==
    { << TSet("x"), TInt(-7), TWord("x") >>,
      << TSet("x"), TFloat(1078530011), TWord("x") >>,
      << TSet("x"), TStr("hi"), TWord("x") >>,
      << TSet("add"), TInt(9), TWord("add") >>,
      << TSet("x"), LB, TInt(1), TInt(2), RB, TWord("x") >> }

Ints(n) == [i \in 1..n |-> TInt(i)]

SetWords(n) == [i \in 1..n |-> TSet("x")]

\* programs that drive each fixed-capacity stack to its limit
LimitPrograms ==
    { Ints(StackCap), Ints(StackCap + 1),
      SetWords(DeferCap) \o << TInt(1) >>, SetWords(DeferCap + 1) \o << TWord("q") >>,
      << TWord("+"), TInt(1), TWord("q") >>,
      Ints(ByteCodeCap \div 6), Ints(ByteCodeCap \div 6 + 1),
      << TSet("b"), LB, TWord("either"), TInt(1), TWord("<"), TInt(2), TWord("b"), TWord("b"), RB,
         TWord("either"), TInt(1), TWord("<"), TInt(2), TWord("b"), TWord("b") >> }

\* a function defined by `func` and called from a lazily compiled block
FuncProgram(body) ==
    << TSet("f"), TWord("func"), LB, RB, LB >> \o body \o << RB >>
      \o EitherProgram(1, 2, << TWord("f") >>, << TInt(0) >>)

FuncPrograms ==
    { FuncProgram(<< TInt(131072) >>), FuncProgram(<< TSet("x"), TInt(1) >>),
      FuncProgram(<< TInt(393216), TInt(1) >>), FuncProgram(<< >>),
      FuncProgram(<< TInt(7) >>),
      FuncProgram(<< TInt(327680) >>), FuncProgram(<< TInt(50659328) >>) }

\* k set-words in a row, then one value (vm.rs 893-948)
SetNames(k) == SubSeq(<< TSet("x"), TSet("y"), TSet("z") >>, 1, k)

MultiSetPrograms ==
    { SetNames(k) \o << v >> : k \in 1..3, v \in { TInt(42), TStr("hi") } }
      \cup { SetNames(3) \o << TInt(42), TWord("y") >> }

\* nested blocks and paths: `1 [2 3] 4` and `a/b c/d/e` (vm.rs 739-794),
\* `[a/b]`, `[[1] 2 [[3]]]`, `a/1 "s"`, and `a/[b]`, whose end_path the parser
\* delivers after the begin_block (parse.rs 415, 397-406)
NestedPrograms ==
    { << TInt(1), LB, TInt(2), TInt(3), RB, TInt(4) >>,
      << BP, TWord("a"), TWord("b"), EP, BP, TWord("c"), TWord("d"), TWord("e"), EP >>,
      << LB, BP, TWord("a"), TWord("b"), EP, RB >>,
      << LB, LB, TInt(1), RB, TInt(2), LB, LB, TInt(3), RB, RB, RB >>,
      << BP, TWord("a"), TInt(1), EP, TStr("s") >>,
      << BP, TWord("a"), LB, EP, TWord("b"), RB >> }

\* a block that starts with an infix operator, compiled by get_binding inside
\* either: `either 1 < 2 [+ 1] [0]`
LazyInfixPrograms ==
    { EitherProgram(1, 2, << TWord("+"), TInt(1) >>, << TInt(0) >>) }

Programs == TestPrograms \cup EnumPrograms \cup ArithPrograms \cup LtPrograms
              \cup PrefixPrograms \cup EitherPrograms \cup LiteralPrograms
              \cup LimitPrograms \cup FuncPrograms \cup MultiSetPrograms
              \cup NestedPrograms \cup LazyInfixPrograms

\* ---------------------------------------------------------------------------
\* Memory (mem.rs): a slice of 32-bit words with length- and capacity-prefixed
\* regions
\* ---------------------------------------------------------------------------
\* Option<T> of an operation on the memory: the memory it leaves, and the value
Opt(ok, m, v) == [ok |-> ok, m |-> m, v |-> v]

OptNone(m) == Opt(FALSE, m, 0)

\* Memory::get_word
MemoryGetWord(m, address) ==
    IF address \in 0..(Len(m) - 1) THEN Opt(TRUE, m, m[address + 1]) ELSE OptNone(m)

\* Memory::set_word
MemorySetWord(m, address, word) ==
    IF address \in 0..(Len(m) - 1)
    THEN Opt(TRUE, [m EXCEPT ![address + 1] = word], 0)
    ELSE OptNone(m)

\* Memory::get and Memory::get_mut: the slice start..start + len exists
MemoryGet(m, start, len) == start + len <= Len(m)

\* u32_slice_to_u8_slice: byte `offset` of the words that start at `address`
\* (little-endian)
MemByte(m, address, offset) ==
    (m[address + (offset \div 4) + 1] \div (256 ^ (offset % 4))) % 256

\* u32_slice_to_u8_slice_mut: one byte written
MemSetByte(m, address, offset, b) ==
    [m EXCEPT ![address + (offset \div 4) + 1] =
                  @ + (b - MemByte(m, address, offset)) * (256 ^ (offset % 4))]

RECURSIVE MemWrite(_, _, _, _)
\* copy_from_slice into the bytes from `offset` on
MemWrite(m, address, offset, bytes) ==
    IF bytes = << >> THEN m
    ELSE MemWrite(MemSetByte(m, address, offset, Head(bytes)), address, offset + 1, Tail(bytes))

\* the bytes offset..offset + n of the words that start at `address`
MemRead(m, address, offset, n) == [k \in 1..n |-> MemByte(m, address, offset + k - 1)]

\* LenAddress::get_data and get_data_mut: the len bytes after the length field
LenGetData(m, la) ==
    LET len == MemoryGetWord(m, la)
    IN  IF ~len.ok THEN Opt(FALSE, m, << >>)
        ELSE IF ~MemoryGet(m, la + 1, (len.v + 3) \div 4) THEN Opt(FALSE, m, << >>)
        ELSE Opt(TRUE, m, MemRead(m, la + 1, 0, len.v))

\* Memory::init_block
InitBlock(m, address, len) ==
    LET set == MemorySetWord(m, address, len)
    IN  IF set.ok THEN Opt(TRUE, set.m, address) ELSE OptNone(m)

\* Memory::init_cap
InitCap(m, address, cap) ==
    LET c == MemorySetWord(m, address, cap)
        l == MemorySetWord(c.m, address + 1, 0)
    IN  IF ~c.ok THEN OptNone(m)
        ELSE IF ~l.ok THEN OptNone(c.m)
        ELSE Opt(TRUE, l.m, address)

\* a CapAddress::alloc_slot that checks the old length against the capacity
AllocSlotLax(m, ca, size_bytes) ==
    LET cap == MemoryGetWord(m, ca)
        old_len == MemoryGetWord(m, ca + 1)
        new_len == old_len.v + size_bytes
        set == MemorySetWord(m, ca + 1, new_len)
    IN  IF ~cap.ok \/ ~old_len.ok THEN OptNone(m)
        ELSE IF old_len.v > cap.v * 4 THEN OptNone(m)
        ELSE IF ~set.ok THEN OptNone(m)
        ELSE IF ~MemoryGet(set.m, ca + 2, cap.v) THEN OptNone(set.m)
        ELSE Opt(TRUE, set.m, old_len.v)

\* a CapAddress::alloc_slot that writes the length before it checks the capacity
AllocSlotUnchecked(m, ca, size_bytes) ==
    LET cap == MemoryGetWord(m, ca)
        old_len == MemoryGetWord(m, ca + 1)
        new_len == old_len.v + size_bytes
        set == MemorySetWord(m, ca + 1, new_len)
    IN  IF ~cap.ok \/ ~old_len.ok \/ ~set.ok THEN OptNone(m)
        ELSE IF new_len > cap.v * 4 THEN OptNone(set.m)
        ELSE IF ~MemoryGet(set.m, ca + 2, cap.v) THEN OptNone(set.m)
        ELSE Opt(TRUE, set.m, old_len.v)

\* CapAddress::alloc_slot: Some(byte offset of the slot in the data area)
AllocSlot(m, ca, size_bytes) ==
    LET cap == MemoryGetWord(m, ca)
        old_len == MemoryGetWord(m, ca + 1)
        new_len == old_len.v + size_bytes
        set == MemorySetWord(m, ca + 1, new_len)
    IN  IF ~cap.ok \/ ~old_len.ok THEN OptNone(m)
        ELSE IF new_len > cap.v * 4 THEN OptNone(m)
        ELSE IF ~set.ok THEN OptNone(m)
        ELSE IF ~MemoryGet(set.m, ca + 2, cap.v) THEN OptNone(set.m)
        ELSE Opt(TRUE, set.m, old_len.v)

\* a CapAddress::reserve_block that does not round the used length up
ReserveBlockUnaligned(m, ca, data_len_bytes) ==
    LET cap == MemoryGetWord(m, ca)
        len == MemoryGetWord(m, ca + 1)
        aligned_len == len.v
        new_len == aligned_len + data_len_bytes + 4
        set == MemorySetWord(m, ca + 1, new_len)
    IN  IF ~cap.ok \/ ~len.ok THEN OptNone(m)
        ELSE IF new_len <= cap.v * 4
        THEN IF ~set.ok THEN OptNone(m)
             ELSE InitBlock(set.m, ca + 2 + (aligned_len \div 4), data_len_bytes)
        ELSE OptNone(m)

\* CapAddress::reserve_block: Some(LenAddress of the new block)
ReserveBlock(m, ca, data_len_bytes) ==
    LET cap == MemoryGetWord(m, ca)
        len == MemoryGetWord(m, ca + 1)
        aligned_len == ((len.v + 3) \div 4) * 4
        new_len == aligned_len + data_len_bytes + 4
        set == MemorySetWord(m, ca + 1, new_len)
    IN  IF ~cap.ok \/ ~len.ok THEN OptNone(m)
        ELSE IF new_len <= cap.v * 4
        THEN IF ~set.ok THEN OptNone(m)
             ELSE InitBlock(set.m, ca + 2 + (aligned_len \div 4), data_len_bytes)
        ELSE OptNone(m)

\* CapAddress::alloc_block
CapAllocBlock(m, ca, data) ==
    LET block == ReserveBlock(m, ca, Len(data))
        dst == LenGetData(block.m, block.v)
    IN  IF ~block.ok THEN OptNone(block.m)
        ELSE IF ~dst.ok THEN OptNone(block.m)
        ELSE IF Len(dst.v) = Len(data)
        THEN Opt(TRUE, MemWrite(block.m, block.v + 1, 0, data), block.v)
        ELSE OptNone(block.m)

\* a CapAddress::alloc_cap that writes the new length before it checks it
AllocCapLate(m, ca, cap_words) ==
    LET len == MemoryGetWord(m, ca + 1)
        aligned_len == ((len.v + 3) \div 4) * 4
        new_len == aligned_len + cap_words * 4 + 8
        arena_cap == MemoryGetWord(m, ca)
        set == MemorySetWord(m, ca + 1, new_len)
    IN  IF ~len.ok \/ ~arena_cap.ok \/ ~set.ok THEN OptNone(m)
        ELSE IF new_len > arena_cap.v * 4 THEN OptNone(set.m)
        ELSE InitCap(set.m, ca + 2 + (aligned_len \div 4), cap_words)

\* an alloc_cap that places the region at the used length without rounding it
\* up to a whole word
AllocCapUnaligned(m, ca, cap_words) ==
    LET len == MemoryGetWord(m, ca + 1)
        aligned_len == len.v
        new_len == aligned_len + cap_words * 4 + 8
        arena_cap == MemoryGetWord(m, ca)
        set == MemorySetWord(m, ca + 1, new_len)
    IN  IF ~len.ok \/ ~arena_cap.ok THEN OptNone(m)
        ELSE IF new_len > arena_cap.v * 4 THEN OptNone(m)
        ELSE IF ~set.ok THEN OptNone(m)
        ELSE InitCap(set.m, ca + 2 + (aligned_len \div 4), cap_words)

\* CapAddress::alloc_cap: Some(CapAddress of the new region)
AllocCap(m, ca, cap_words) ==
    LET len == MemoryGetWord(m, ca + 1)
        aligned_len == ((len.v + 3) \div 4) * 4
        new_len == aligned_len + cap_words * 4 + 8
        arena_cap == MemoryGetWord(m, ca)
        set == MemorySetWord(m, ca + 1, new_len)
    IN  IF ~len.ok \/ ~arena_cap.ok THEN OptNone(m)
        ELSE IF new_len > arena_cap.v * 4 THEN OptNone(m)
        ELSE IF ~set.ok THEN OptNone(m)
        ELSE InitCap(set.m, ca + 2 + (aligned_len \div 4), cap_words)

\* ---------------------------------------------------------------------------
\* Items: u8, Word and MemValue / VmValue
\* ---------------------------------------------------------------------------
ItemTypes == { "u8", "Word", "VmValue" }

\* Item::SIZE
ItemSize(type) == IF type = "u8" THEN 1 ELSE IF type = "Word" THEN 4 ELSE 8

\* MemValue(word, tag)
MemValue(word, tag) == [word |-> word, tag |-> tag]

TAG_GET_WORD == 9

\* Item::store: the bytes an item is stored as
ItemStore(type, item) ==
    IF type = "u8" THEN << item >>
    ELSE IF type = "Word" THEN ToBytes4(item)
    ELSE ToBytes4(item.word) \o ToBytes4(item.tag)

\* Item::load: the item of the bytes, None for a VmValue of an invalid tag; a
\* VmValue keeps the low byte of the tag, None has no data and Bool is 0 or 1
ItemLoad(type, bytes) ==
    IF Len(bytes) < ItemSize(type) THEN [ok |-> FALSE, item |-> 0]
    ELSE IF type = "u8" THEN [ok |-> TRUE, item |-> bytes[1]]
    ELSE IF type = "Word" THEN [ok |-> TRUE, item |-> FromBytes4(bytes)]
    ELSE LET tag == FromBytes4(SubSeq(bytes, 5, 8)) % 256
             word == FromBytes4(SubSeq(bytes, 1, 4))
         IN  IF tag > TAG_GET_WORD THEN [ok |-> FALSE, item |-> 0]
             ELSE IF tag = 0 THEN [ok |-> TRUE, item |-> MemValue(0, tag)]
             ELSE IF tag = 2
             THEN [ok |-> TRUE, item |-> MemValue(IF word # 0 THEN 1 ELSE 0, tag)]
             ELSE [ok |-> TRUE, item |-> MemValue(word, tag)]

\* ---------------------------------------------------------------------------
\* Stack<I> and Block<I>
\* ---------------------------------------------------------------------------
\* Stack::len
Stack_len(m, ca, type) ==
    LET len == MemoryGetWord(m, ca + 1)
    IN  IF len.ok THEN Opt(TRUE, m, len.v \div ItemSize(type)) ELSE OptNone(m)

\* Stack::push
Stack_push(m, ca, type, item) ==
    LET slot == AllocSlot(m, ca, ItemSize(type))
    IN  IF ~slot.ok THEN OptNone(slot.m)
        ELSE Opt(TRUE, MemWrite(slot.m, ca + 2, slot.v, ItemStore(type, item)), 0)

\* a Stack::pop that returns the first item
Stack_pop_first(m, ca, type) ==
    LET len == MemoryGetWord(m, ca + 1)
        start == len.v - ItemSize(type)
        data == LenGetData(m, ca + 1)
        item == ItemLoad(type, SubSeq(data.v, 1, ItemSize(type)))
        set == MemorySetWord(m, ca + 1, start)
    IN  IF ~len.ok THEN OptNone(m)
        ELSE IF start < 0 THEN OptNone(m)
        ELSE IF ~data.ok THEN OptNone(m)
        ELSE IF ~item.ok THEN OptNone(m)
        ELSE IF ~set.ok THEN OptNone(m)
        ELSE Opt(TRUE, set.m, item.item)

\* Stack::pop
Stack_pop(m, ca, type) ==
    LET len == MemoryGetWord(m, ca + 1)
        start == len.v - ItemSize(type)
        data == LenGetData(m, ca + 1)
        item == ItemLoad(type, SubSeq(data.v, start + 1, start + ItemSize(type)))
        set == MemorySetWord(m, ca + 1, start)
    IN  IF ~len.ok THEN OptNone(m)
        ELSE IF start < 0 THEN OptNone(m)
        ELSE IF ~data.ok THEN OptNone(m)
        ELSE IF ~item.ok THEN OptNone(m)
        ELSE IF ~set.ok THEN OptNone(m)
        ELSE Opt(TRUE, set.m, item.item)

\* Stack::get and Block::get on the block at the LenAddress la
BlockGet(m, la, type, index) ==
    LET data == LenGetData(m, la)
        start == index * ItemSize(type)
        item == ItemLoad(type, SubSeq(data.v, start + 1, start + ItemSize(type)))
    IN  IF ~data.ok THEN OptNone(m)
        ELSE IF start + ItemSize(type) > Len(data.v) THEN OptNone(m)
        ELSE IF ~item.ok THEN OptNone(m)
        ELSE Opt(TRUE, m, item.item)

\* a Memory::move_items that copies from the start of the source
MoveItemsFromStart(m, to, from, size_bytes) ==
    LET to_len == MemoryGetWord(m, to)
        to_new == to_len.v - size_bytes
        from_len == MemoryGetWord(m, from)
        from_new == from_len.v - size_bytes
        src == (from + 1) * 4
        dst == (to + 1) * 4 + to_new
        copied == MemWrite(m, 0, dst, MemRead(m, 0, src, size_bytes))
        set == MemorySetWord(copied, from, from_new)
    IN  IF ~to_len.ok \/ to_new < 0 THEN OptNone(m)
        ELSE IF ~from_len.ok \/ from_new < 0 THEN OptNone(m)
        ELSE IF dst + size_bytes > Len(m) * 4 \/ src + size_bytes > Len(m) * 4 THEN OptNone(m)
        ELSE IF ~set.ok THEN OptNone(copied)
        ELSE Opt(TRUE, set.m, 0)

\* Memory::move_items
MoveItems(m, to, from, size_bytes) ==
    LET to_len == MemoryGetWord(m, to)
        to_new == to_len.v - size_bytes
        from_len == MemoryGetWord(m, from)
        from_new == from_len.v - size_bytes
        src == (from + 1) * 4 + from_new
        dst == (to + 1) * 4 + to_new
        copied == MemWrite(m, 0, dst, MemRead(m, 0, src, size_bytes))
        set == MemorySetWord(copied, from, from_new)
    IN  IF ~to_len.ok \/ to_new < 0 THEN OptNone(m)
        ELSE IF ~from_len.ok \/ from_new < 0 THEN OptNone(m)
        ELSE IF dst + size_bytes > Len(m) * 4 \/ src + size_bytes > Len(m) * 4 THEN OptNone(m)
        ELSE IF ~set.ok THEN OptNone(copied)
        ELSE Opt(TRUE, set.m, 0)

\* Stack::cut_block: Some(LenAddress of the block of the last `items` items)
CutBlock(m, ca, type, to, items) ==
    LET size_bytes == items * ItemSize(type)
        dst == ReserveBlock(m, to, size_bytes)
        moved == MoveItems(dst.m, dst.v, ca + 1, size_bytes)
    IN  IF ~dst.ok THEN OptNone(dst.m)
        ELSE IF ~moved.ok THEN OptNone(moved.m)
        ELSE Opt(TRUE, moved.m, dst.v)

\* Arena::alloc_string
ArenaAllocString(m, heap, string) == CapAllocBlock(m, heap, string)

\* Arena::alloc_stack
ArenaAllocStack(m, heap, type, cap_items) ==
    AllocCap(m, heap, (cap_items * ItemSize(type) + 3) \div 4)

\* ---------------------------------------------------------------------------
\* SymbolTable
\* ---------------------------------------------------------------------------
RECURSIVE SymbolProbe(_, _, _, _, _, _)
\* the probing loop of get_or_insert_symbol, from slot `index`
SymbolProbe(m, table, heap, bytes, start, index) ==
    LET cap == m[table + 1]
        count == m[table + 2]
        entry == MemoryGetWord(m, table + 2 + index)
        str == ArenaAllocString(m, heap, bytes)
        put == MemorySetWord(str.m, table + 2 + index, str.v)
        set == MemorySetWord(put.m, table + 1, count + 1)
        stored == LenGetData(m, entry.v)
        next == (index + 1) % cap
    IN  IF ~entry.ok THEN OptNone(m)
        ELSE IF entry.v = 0
        THEN IF ~str.ok THEN OptNone(str.m)
             ELSE IF ~put.ok THEN OptNone(str.m)
             ELSE IF ~set.ok THEN OptNone(put.m)
             ELSE Opt(TRUE, set.m, str.v)
        ELSE IF ~stored.ok THEN OptNone(m)
        ELSE IF stored.v = bytes THEN Opt(TRUE, m, entry.v)
        ELSE IF next = start THEN OptNone(m)
        ELSE SymbolProbe(m, table, heap, bytes, start, next)

\* a get_or_insert_symbol whose first slot moves with the number of entries
GetOrInsertSymbolShifted(m, table, heap, symbol, hash) ==
    LET cap == MemoryGetWord(m, table)
        count == MemoryGetWord(m, table + 1)
    IN  IF ~cap.ok THEN OptNone(m)
        ELSE IF cap.v = 0 THEN OptNone(m)
        ELSE IF ~count.ok THEN OptNone(m)
        ELSE SymbolProbe(m, table, heap, symbol, (hash + count.v) % cap.v,
                         (hash + count.v) % cap.v)

\* SymbolTable::get_or_insert_symbol; hash is xxh32(symbol, HASH_SEED)
GetOrInsertSymbol(m, table, heap, symbol, hash) ==
    LET cap == MemoryGetWord(m, table)
        count == MemoryGetWord(m, table + 1)
    IN  IF ~cap.ok THEN OptNone(m)
        ELSE IF cap.v = 0 THEN OptNone(m)
        ELSE IF ~count.ok THEN OptNone(m)
        ELSE SymbolProbe(m, table, heap, symbol, hash % cap.v, hash % cap.v)

\* ---------------------------------------------------------------------------
\* Memory::init and the regions
\* ---------------------------------------------------------------------------
LAYOUT_REGIONS == 4

LAYOUT_OFFSET == 1

LAYOUT_SYMBOL_TABLE == 0

LAYOUT_PARSE_STACK == 1

LAYOUT_PARSE_BASE == 2

LAYOUT_HEAP == 3

RECURSIVE InitRegions(_, _, _, _)
\* the loop of Memory::init over the region sizes, from region i at addr
InitRegions(m, sizes, i, addr) ==
    IF i > Len(sizes) THEN Opt(TRUE, m, 0)
    ELSE LET cap == sizes[i] - 8
             cap_address == InitCap(m, addr, cap)
             set == MemorySetWord(cap_address.m, LAYOUT_OFFSET + 1 + (i - 1), cap_address.v)
         IN  IF cap < 0 THEN OptNone(m)
             ELSE IF ~cap_address.ok THEN OptNone(cap_address.m)
             ELSE IF ~set.ok THEN OptNone(cap_address.m)
             ELSE InitRegions(set.m, sizes, i + 1, addr + sizes[i])

\* Memory::init
MemoryInit(m, sizes) ==
    LET magic == MemorySetWord(m, 0, 195948557)
        layout == InitBlock(magic.m, LAYOUT_OFFSET, LAYOUT_REGIONS * 4)
    IN  IF ~magic.ok THEN OptNone(m)
        ELSE IF ~layout.ok THEN OptNone(magic.m)
        ELSE InitRegions(layout.m, sizes, 1, 64)

\* Memory::get_region
GetRegion(m, region) == m[LAYOUT_OFFSET + 1 + region + 1]

\* Memory::begin
MemoryBegin(m) ==
    LET len == Stack_len(m, GetRegion(m, LAYOUT_PARSE_STACK), "VmValue")
    IN  IF ~len.ok THEN OptNone(m)
        ELSE Stack_push(m, GetRegion(m, LAYOUT_PARSE_BASE), "Word", len.v)

\* Memory::end
MemoryEnd(m) ==
    LET offset == Stack_pop(m, GetRegion(m, LAYOUT_PARSE_BASE), "Word")
        len == Stack_len(offset.m, GetRegion(m, LAYOUT_PARSE_STACK), "VmValue")
    IN  IF ~offset.ok THEN OptNone(offset.m)
        ELSE IF ~len.ok \/ len.v < offset.v THEN OptNone(offset.m)
        ELSE CutBlock(offset.m, GetRegion(m, LAYOUT_PARSE_STACK), "VmValue",
                      GetRegion(m, LAYOUT_HEAP), len.v - offset.v)

\* ---------------------------------------------------------------------------
\* A driver of the Memory API (tests/mem_test.rs)
\* ---------------------------------------------------------------------------
\* bound on the number of Memory operations of one run
MaxOps == 4

\* the sizes, in words, of the symbol table, the parse stack, the parse base
\* and the heap
RegionSizes == << 10, 12, 10, 14 >>

\* the length of the memory slice: the regions start at word 64
MemoryWords == 64 + 10 + 12 + 10 + 14

\* names as UTF-8 bytes: "b", "c", "cba"
Symbols == { << 98 >>, << 99 >>, << 99, 98, 97 >> }

\* xxh32(bytes, HASH_SEED) of the names: "b" and "c" share the slot of a table
\* of two entries, "cba" has the other one
xxh32(bytes) ==
    IF bytes = << 98 >> THEN 401519386
    ELSE IF bytes = << 99 >> THEN 885853408
    ELSE 1153027

\* the stack the driver allocates: item type and capacity in items
NewStack == [type |-> "u8", cap_items |-> 3]

\* the string the driver allocates: "cba"
NewString == << 99, 98, 97 >>

\* the items the driver pushes
ItemsOf(type) ==
    IF type = "u8" THEN { 7, 9 }
    ELSE IF type = "Word" THEN { 65537 }
    ELSE { MemValue(42, 1), MemValue(1, 2) }

\* a Stack or Block the driver holds: its address, its item type, and the
\* items it is expected to hold
Handle(kind, addr, type, items) ==
    [kind |-> kind, addr |-> addr, type |-> type, items |-> items]

Ret(op, h, ok, v) == [op |-> op, h |-> h, ok |-> ok, v |-> v]

NoRet == Ret("none", 0, FALSE, 0)

\* ---------------------------------------------------------------------------
\* State
\* ---------------------------------------------------------------------------
VARIABLES
    memory,         \* Vm.memory: heap objects, bump pointer, symbols, bindings
    natives,        \* Vm.natives: host function table indexed by id
    source,         \* the program given to Vm::parse_block
    input,          \* parser events not yet delivered
    cstack,         \* ParseCollector.stack
    pos_stack,      \* ParseCollector.pos_stack
    root,           \* Value returned by Vm::parse_block
    ip,             \* Process.ip
    stack,          \* Process.stack
    call_stack,     \* Process.call_stack
    c_block,        \* compile: the block being compiled
    c_pos,          \* compile: index of the next source value (ip cursor)
    stack_len,      \* compile: simulated operand stack height
    defer_stack,    \* compile: pending Defers
    code_stack,     \* compile: bytecode buffer
    c_ret,          \* compile: who called (driver compile, get_binding, either)
    pc,             \* control position of the driver / core
    calls,          \* number of driver calls made so far
    last,           \* the driver call that finished last
    result,         \* Value returned by the last exec
    code_ret,       \* address returned by the last compile / get_binding
    err,            \* error returned by the last finished call
    fresh,          \* no exec has been started on the current Process
    exec_info,      \* the exec call in progress or last finished
    log,            \* history of compile / get_binding returns
    ovf,            \* the last ArrayStack operation that was refused
    parser,         \* Parser: input, cursor, collector (events received), in_path
    entry,          \* the Parser entry point called: parse or parse_block
    ppc,            \* control position of the Parser call
    presult,        \* Result returned by the Parser call
    parsed,         \* events and Result of the finished Parser::parse call
    arena,          \* Memory.memory: the slice of words
    handles,        \* the Stacks and Blocks the driver of the Memory API holds
    lastRet,        \* what the last Memory operation returned
    nops            \* number of Memory operations made so far

vars == << memory, natives, source, input, cstack, pos_stack, root, ip, stack, call_stack,
           c_block, c_pos, stack_len, defer_stack, code_stack, c_ret,
           pc, calls, last, result, code_ret, err, fresh, exec_info, log, ovf,
           parser, entry, ppc, presult, parsed,
           arena, handles, lastRet, nops >>

parserVars == << parser, entry, ppc, presult, parsed >>

arenaVars == << arena, handles, lastRet, nops >>

coreVars == << memory, natives, source, input, cstack, pos_stack, root, ip, stack, call_stack,
               c_block, c_pos, stack_len, defer_stack, code_stack, c_ret,
               pc, calls, last, result, code_ret, err, fresh, exec_info, log, ovf >>

vmVars == << memory, natives >>

collectorVars == << source, input, cstack, pos_stack, root >>

processVars == << ip, stack, call_stack >>

compileVars == << c_block, c_pos, stack_len, defer_stack, code_stack, c_ret >>

driverVars == << calls, last, result, code_ret >>

ghostVars == << fresh, exec_info, log, ovf >>

NoOverflow == [stack |-> "none", before |-> << >>, after |-> << >>]

\* the state after Vm::new and Process::new, for a source already chosen
CoreInit ==
    /\ memory = VmNew.memory
    /\ natives = VmNew.natives
    /\ input = source
    /\ cstack = << >>
    /\ pos_stack = << >>
    /\ root = ValueNone
    /\ ip = 0
    /\ stack = << >>
    /\ call_stack = << >>
    /\ c_block = 0
    /\ c_pos = 0
    /\ stack_len = 0
    /\ defer_stack = << >>
    /\ code_stack = << >>
    /\ c_ret = "none"
    /\ pc = "start"
    /\ calls = 0
    /\ last = "none"
    /\ result = ValueNone
    /\ code_ret = 0
    /\ err = NoError
    /\ fresh = TRUE
    /\ exec_info = [fresh |-> TRUE, code |-> 0]
    /\ log = << >>
    /\ ovf = NoOverflow

\* Parser::new
ParserNew(text) == [input |-> text, cursor |-> 0, collector |-> << >>, in_path |-> FALSE]

\* no Memory has been created
ArenaIdle ==
    /\ arena = << >>
    /\ handles = << >>
    /\ lastRet = NoRet
    /\ nops = 0

NotParsed == [collector |-> << >>, result |-> [err |-> "none", char |-> ""]]

Init ==
    /\ source \in Programs
    /\ CoreInit
    /\ parser = ParserNew(<< >>)
    /\ entry = "none"
    /\ ppc = "idle"
    /\ presult = [err |-> "none", char |-> ""]
    /\ parsed = NotParsed
    /\ ArenaIdle

\* ---------------------------------------------------------------------------
\* Vm::parse_block and the ParseCollector
\* ---------------------------------------------------------------------------
ParseFail(e) ==
    /\ pc' = "parse_failed"
    /\ err' = e

\* ParseCollector::begin
CollectorBegin(ps, st) == ArrayStackPush(ps, Len(st), CollectorCap)

\* ParseCollector::end: drain the values above the saved position into a fresh
\* Series and push one BLOCK / PATH value in their place
CollectorEnd(m, st, ps, kind) ==
    LET p == ArrayStackPop(ps)
        pos == p.v
        block == AllocItems(m, "values", SubSeq(st, pos + 1, Len(st)), ValueSize)
        push == ArrayStackPush(SubSeq(st, 1, pos), Val(kind, block.addr), CollectorCap)
    IN  IF ~p.ok THEN [err |-> "StackUnderflow", m |-> m, st |-> st, ps |-> ps]
        ELSE IF block.err # NoError
             THEN [err |-> block.err, m |-> m, st |-> SubSeq(st, 1, pos), ps |-> p.s]
        ELSE IF ~push.ok
             THEN [err |-> "StackOverflow", m |-> block.m, st |-> push.s, ps |-> p.s]
        ELSE [err |-> NoError, m |-> block.m, st |-> push.s, ps |-> p.s]

\* Parser::parse_block: new collector, begin_block before the first token
ParseStart ==
    /\ pc = "start"
    /\ LET b == CollectorBegin(<< >>, << >>)
       IN  /\ pos_stack' = b.s
           /\ cstack' = << >>
    /\ pc' = "parse"
    /\ UNCHANGED << memory, natives, source, input, root, processVars, compileVars,
                    driverVars, err, ghostVars >>
    /\ UNCHANGED << parserVars, arenaVars >>

CollectPush(m, v) ==
    LET push == ArrayStackPush(cstack, v, CollectorCap)
    IN  /\ memory' = m
        /\ cstack' = push.s
        /\ input' = Tail(input)
        /\ IF push.ok THEN UNCHANGED << pc, err >> ELSE ParseFail("StackOverflow")
        /\ UNCHANGED << natives, source, pos_stack, root, processVars, compileVars,
                        driverVars, ghostVars >>

CollectAbort(m, e) ==
    /\ memory' = m
    /\ input' = Tail(input)
    /\ ParseFail(e)
    /\ UNCHANGED << natives, source, cstack, pos_stack, root, processVars, compileVars,
                    driverVars, ghostVars >>

\* Collector::integer
CollectInteger ==
    /\ pc = "parse" /\ input # << >> /\ Head(input).t = "int"
    /\ CollectPush(memory, ValueInt(Head(input).v))
    /\ UNCHANGED << parserVars, arenaVars >>

\* Collector::float
CollectFloat ==
    /\ pc = "parse" /\ input # << >> /\ Head(input).t = "float"
    /\ CollectPush(memory, Val(Value_FLOAT, Head(input).v))
    /\ UNCHANGED << parserVars, arenaVars >>

\* Collector::string
CollectString ==
    /\ pc = "parse" /\ input # << >> /\ Head(input).t = "string"
    /\ LET a == AllocString(memory, Head(input).n)
       IN  IF a.err # NoError THEN CollectAbort(memory, a.err)
           ELSE CollectPush(a.m, Val(Value_STRING, a.addr))
    /\ UNCHANGED << parserVars, arenaVars >>

WordKindOf(t) ==
    IF t = "setword" THEN Value_SET_WORD
    ELSE IF t = "getword" THEN Value_GET_WORD
    ELSE Value_WORD

\* Collector::word
CollectWord ==
    /\ pc = "parse" /\ input # << >> /\ Head(input).t \in {"word", "setword", "getword"}
    /\ LET a == GetOrAddSymbol(memory, Head(input).n)
       IN  IF a.err # NoError THEN CollectAbort(memory, a.err)
           ELSE CollectPush(a.m, Val(WordKindOf(Head(input).t), a.addr))
    /\ UNCHANGED << parserVars, arenaVars >>

\* Collector::begin_block
CollectBeginBlock ==
    /\ pc = "parse" /\ input # << >> /\ Head(input).t = "["
    /\ LET b == CollectorBegin(pos_stack, cstack)
       IN  /\ pos_stack' = b.s
           /\ IF b.ok THEN UNCHANGED << pc, err >> ELSE ParseFail("StackOverflow")
    /\ input' = Tail(input)
    /\ UNCHANGED << memory, natives, source, cstack, root, processVars, compileVars,
                    driverVars, ghostVars >>
    /\ UNCHANGED << parserVars, arenaVars >>

\* Collector::end_block
CollectEndBlock ==
    /\ pc = "parse" /\ input # << >> /\ Head(input).t = "]"
    /\ LET e == CollectorEnd(memory, cstack, pos_stack, Value_BLOCK)
       IN  /\ memory' = e.m
           /\ cstack' = e.st
           /\ pos_stack' = e.ps
           /\ IF e.err = NoError THEN UNCHANGED << pc, err >> ELSE ParseFail(e.err)
    /\ input' = Tail(input)
    /\ UNCHANGED << natives, source, root, processVars, compileVars, driverVars, ghostVars >>
    /\ UNCHANGED << parserVars, arenaVars >>

\* Collector::begin_path
CollectBeginPath ==
    /\ pc = "parse" /\ input # << >> /\ Head(input).t = "path"
    /\ LET b == CollectorBegin(pos_stack, cstack)
       IN  /\ pos_stack' = b.s
           /\ IF b.ok THEN UNCHANGED << pc, err >> ELSE ParseFail("StackOverflow")
    /\ input' = Tail(input)
    /\ UNCHANGED << memory, natives, source, cstack, root, processVars, compileVars,
                    driverVars, ghostVars >>
    /\ UNCHANGED << parserVars, arenaVars >>

\* Collector::end_path
CollectEndPath ==
    /\ pc = "parse" /\ input # << >> /\ Head(input).t = "endpath"
    /\ LET e == CollectorEnd(memory, cstack, pos_stack, Value_PATH)
       IN  /\ memory' = e.m
           /\ cstack' = e.st
           /\ pos_stack' = e.ps
           /\ IF e.err = NoError THEN UNCHANGED << pc, err >> ELSE ParseFail(e.err)
    /\ input' = Tail(input)
    /\ UNCHANGED << natives, source, root, processVars, compileVars, driverVars, ghostVars >>
    /\ UNCHANGED << parserVars, arenaVars >>

\* end of input: the closing end_block of Parser::parse_block, then
\* Vm::parse_block pops the collector stack; Process::new follows
ParseFinish ==
    /\ pc = "parse" /\ input = << >>
    /\ LET e == CollectorEnd(memory, cstack, pos_stack, Value_BLOCK)
           p == ArrayStackPop(e.st)
       IN  /\ memory' = e.m
           /\ pos_stack' = e.ps
           /\ IF e.err # NoError
              THEN /\ cstack' = e.st /\ ParseFail(e.err) /\ UNCHANGED root
              ELSE /\ cstack' = p.s
                   /\ root' = p.v
                   /\ pc' = "ready"
                   /\ UNCHANGED err
    /\ UNCHANGED << natives, source, input, processVars, compileVars, driverVars, ghostVars >>
    /\ UNCHANGED << parserVars, arenaVars >>

\* ---------------------------------------------------------------------------
\* Process::compile
\* ---------------------------------------------------------------------------
Call(t, a) == [t |-> t, a |-> a]

Defer(call, bp, arity, consume) ==
    [call |-> call, bp |-> bp, arity |-> arity, consume |-> consume]

PushOp(b) == [push |-> TRUE, bytes |-> << b >>]

ExtendOp(bs) == [push |-> FALSE, bytes |-> bs]

Overflowed(name, before, after) == [stack |-> name, before |-> before, after |-> after]

\* a run of code_stack.push / code_stack.extend calls, `?` after each
RECURSIVE EmitOps(_, _)
EmitOps(code, ops) ==
    IF ops = << >> THEN [ok |-> TRUE, s |-> code, before |-> code]
    ELSE LET op == Head(ops)
             r == IF op.push THEN ArrayStackPush(code, op.bytes[1], ByteCodeCap)
                  ELSE ArrayStackExtend(code, op.bytes, ByteCodeCap)
         IN  IF r.ok THEN EmitOps(r.s, Tail(ops))
             ELSE [ok |-> FALSE, s |-> r.s, before |-> code]

CompileOut(e, m, sl, ds, cs, o) ==
    [err |-> e, m |-> m, stack_len |-> sl, defer_stack |-> ds, code_stack |-> cs, ovf |-> o]

CompileEmit(m, sl, ds, cs, ops) ==
    LET e == EmitOps(cs, ops)
    IN  IF e.ok THEN CompileOut(NoError, m, sl, ds, e.s, NoOverflow)
        ELSE CompileOut("StackOverflow", m, sl, ds, e.s, Overflowed("code", e.before, e.s))

CompilePushDefer(m, sl, ds, cs, defer) ==
    LET r == ArrayStackPush(ds, defer, DeferCap)
    IN  IF r.ok THEN CompileOut(NoError, m, sl, r.s, cs, NoOverflow)
        ELSE CompileOut("StackOverflow", m, sl, r.s, cs, Overflowed("defer", ds, r.s))

\* a WORD bound to a native or a user function stands for that function
\* a lookup that takes a missing binding for a none value
ResolveValueLenient(m, value) ==
    IF value.kind # Value_WORD THEN [err |-> NoError, v |-> value]
    ELSE LET resolved == GetWord(m, value.data)
         IN  IF resolved.err # NoError THEN [err |-> NoError, v |-> ValueNone]
             ELSE IF resolved.v.kind \in {Value_NATIVE_FUNC, Value_FUNC}
                  THEN [err |-> NoError, v |-> resolved.v]
             ELSE [err |-> NoError, v |-> value]

ResolveValue(m, value) ==
    IF value.kind # Value_WORD THEN [err |-> NoError, v |-> value]
    ELSE LET resolved == GetWord(m, value.data)
         IN  IF resolved.err # NoError THEN [err |-> resolved.err, v |-> value]
             ELSE IF resolved.v.kind \in {Value_NATIVE_FUNC, Value_FUNC}
                  THEN [err |-> NoError, v |-> resolved.v]
             ELSE [err |-> NoError, v |-> value]

\* the bytecode of a fired Defer
DeferOps(call) ==
    IF call.t = "SetWord" THEN << PushOp(Code_SET_WORD), ExtendOp(ToBytes4(call.a)) >>
    ELSE IF call.t = "CallNative" THEN << PushOp(Code_CALL_NATIVE), ExtendOp(ToBytes2(call.a)) >>
    ELSE << PushOp(Code_CALL_FUNC), ExtendOp(ToBytes4(call.a)) >>

\* a Defer that fires as soon as one operand is there
DeferFiresEarly(ds, sl) ==
    /\ ds # << >>
    /\ sl > ds[Len(ds)].bp

DeferFires(ds, sl) ==
    /\ ds # << >>
    /\ sl = ds[Len(ds)].bp + ds[Len(ds)].arity

\* stack_len -= consume; stack_len += 1 on a u16, wrapping
DeferStackLen(sl, consume) == (sl + ShortMod - consume + 1) % ShortMod

\* one turn of the inner `while let Some(defer)` loop with a Defer that fires
CompileDeferStep(m, sl, ds, cs) ==
    LET defer == ds[Len(ds)]
        out == CompileEmit(m, DeferStackLen(sl, defer.consume), ds, cs, DeferOps(defer.call))
    IN  IF out.err # NoError THEN out
        ELSE [out EXCEPT !.defer_stack = SubSeq(ds, 1, Len(ds) - 1)]

\* one source value: resolve, then dispatch on its kind
CompileValueStep(m, v0, sl, ds, cs) ==
    LET r == ResolveValue(m, v0)
        value == r.v
    IN  IF r.err # NoError THEN CompileOut(r.err, m, sl, ds, cs, NoOverflow)
        ELSE IF value.kind = Value_WORD
        THEN LET b == BindWord(m, value.data, FALSE)
             IN  IF b.err # NoError THEN CompileOut(b.err, m, sl, ds, cs, NoOverflow)
                 ELSE CompileEmit(b.m, sl + 1, ds, cs,
                                  << PushOp(Code_WORD), ExtendOp(ToBytes4(b.addr)) >>)
        ELSE IF value.kind = Value_SET_WORD
        THEN LET b == BindWord(m, value.data, TRUE)
             IN  IF b.err # NoError THEN CompileOut(b.err, m, sl, ds, cs, NoOverflow)
                 ELSE CompilePushDefer(b.m, sl, ds, cs, Defer(Call("SetWord", b.addr), sl, 1, 1))
        ELSE IF value.kind = Value_NATIVE_FUNC
        THEN IF ~HasTag(m, value.data, "native")
             THEN CompileOut("OutOfBounds", m, sl, ds, cs, NoOverflow)
             ELSE LET native_func == m.heap[value.data].items
                  IN  CompilePushDefer(m, sl, ds, cs,
                          Defer(Call("CallNative", native_func[1]), sl,
                                native_func[2], native_func[3]))
        ELSE IF value.kind = Value_FUNC
        THEN IF ~HasTag(m, value.data, "func")
             THEN CompileOut("OutOfBounds", m, sl, ds, cs, NoOverflow)
             ELSE LET arity == m.heap[value.data].items[1]
                  IN  CompilePushDefer(m, sl, ds, cs,
                          Defer(Call("CallFunc", value.data), sl, arity, arity))
        ELSE CompileEmit(m, sl + 1, ds, cs,
                         << ExtendOp(<< Code_CONST, value.kind % 256 >>),
                            ExtendOp(ToBytes4(value.data)) >>)

\* the stack-fix instruction that precedes RET
\* a stack fix that emits nothing for an empty stack
StackFixOpsNoNone(sl) ==
    IF sl <= 1 THEN << >>
    ELSE << ExtendOp(<< Code_LEAVE, sl % 256 >>) >>

StackFixOps(sl) ==
    IF sl = 0 THEN << PushOp(Code_NONE) >>
    ELSE IF sl = 1 THEN << >>
    ELSE << ExtendOp(<< Code_LEAVE, sl % 256 >>) >>

\* a compile that hands out the Series of an earlier compile of the block
CompileFinishStepMemoized(m, sl, ds, cs) ==
    LET out == CompileEmit(m, sl, ds, cs, StackFixOps(sl) \o << PushOp(Code_RET) >>)
        a == AllocItems(m, "code", out.code_stack, 1)
        earlier == { j \in DOMAIN log : log[j].op = "compile" /\ log[j].block = c_block }
    IN  IF out.err # NoError THEN out @@ [addr |-> 0]
        ELSE IF earlier # {} THEN out @@ [addr |-> log[CHOOSE j \in earlier : TRUE].addr]
        ELSE IF a.err # NoError THEN [out EXCEPT !.err = a.err] @@ [addr |-> 0]
        ELSE [out EXCEPT !.m = a.m] @@ [addr |-> a.addr]

\* after the loop: fix the stack, RET, copy the buffer into a new Series
CompileFinishStep(m, sl, ds, cs) ==
    LET out == CompileEmit(m, sl, ds, cs, StackFixOps(sl) \o << PushOp(Code_RET) >>)
        a == AllocItems(m, "code", out.code_stack, 1)
    IN  IF out.err # NoError THEN out @@ [addr |-> 0]
        ELSE IF a.err # NoError THEN [out EXCEPT !.err = a.err] @@ [addr |-> 0]
        ELSE [out EXCEPT !.m = a.m] @@ [addr |-> a.addr]

SourceItems == memory.heap[c_block].items

LogEntry(op, by, block, addr) == [op |-> op, by |-> by, block |-> block, addr |-> addr]

KeepOverflow(o) == IF o.stack = "none" THEN ovf ELSE o

CompileBegin(block, ret) ==
    /\ c_block' = block
    /\ c_pos' = 1
    /\ stack_len' = 0
    /\ defer_stack' = << >>
    /\ code_stack' = << >>
    /\ c_ret' = ret
    /\ pc' = "compile"

CompileApply(out) ==
    /\ memory' = out.m
    /\ stack_len' = out.stack_len
    /\ defer_stack' = out.defer_stack
    /\ code_stack' = out.code_stack

\* a failing compile that stores what it has emitted so far as the bytecode of
\* the block
CompileFailPartial(out) ==
    /\ LET a == AllocItems(out.m, "code", out.code_stack, 1)
       IN  memory' = IF a.err = NoError /\ c_ret # "compile"
                     THEN [a.m EXCEPT !.heap[c_block].bindings = a.addr]
                     ELSE out.m
    /\ stack_len' = out.stack_len
    /\ defer_stack' = out.defer_stack
    /\ code_stack' = out.code_stack
    /\ ovf' = KeepOverflow(out.ovf)
    /\ err' = out.err
    /\ pc' = "ready"
    /\ last' = IF c_ret = "either" THEN "exec" ELSE c_ret
    /\ UNCHANGED << natives, collectorVars, processVars, c_block, c_pos, c_ret,
                    calls, result, code_ret, fresh, exec_info, log >>

\* compile returns Err: to the driver, or through get_binding / either / run
\* out of exec
CompileFail(out) ==
    /\ CompileApply(out)
    /\ ovf' = KeepOverflow(out.ovf)
    /\ err' = out.err
    /\ pc' = "ready"
    /\ last' = IF c_ret = "either" THEN "exec" ELSE c_ret
    /\ UNCHANGED << natives, collectorVars, processVars, c_block, c_pos, c_ret,
                    calls, result, code_ret, fresh, exec_info, log >>

\* the driver calls Process::compile on a value Series held in memory
DriverCompile(block) ==
    /\ pc = "ready" /\ calls < MaxCalls
    /\ HasTag(memory, block, "values")
    /\ CompileBegin(block, "compile")
    /\ calls' = calls + 1
    /\ UNCHANGED << vmVars, collectorVars, processVars, last, result, code_ret, err, ghostVars >>
    /\ UNCHANGED << parserVars, arenaVars >>

\* the driver calls Process::get_binding
DriverGetBinding(block) ==
    /\ pc = "ready" /\ calls < MaxCalls
    /\ HasTag(memory, block, "values")
    /\ calls' = calls + 1
    /\ IF memory.heap[block].bindings # 0
       THEN /\ code_ret' = memory.heap[block].bindings
            /\ last' = "get_binding"
            /\ err' = NoError
            /\ log' = Append(log, LogEntry("get_binding", "driver", block,
                                            memory.heap[block].bindings))
            /\ UNCHANGED << pc, compileVars, fresh, exec_info, ovf >>
       ELSE /\ CompileBegin(block, "get_binding")
            /\ UNCHANGED << code_ret, last, err, ghostVars >>
    /\ UNCHANGED << vmVars, collectorVars, processVars, result >>
    /\ UNCHANGED << parserVars, arenaVars >>

\* debug build: `stack_len -= consume` overflows and the thread panics
CompilePanic ==
    /\ pc = "compile"
    /\ DeferFires(defer_stack, stack_len)
    /\ stack_len < defer_stack[Len(defer_stack)].consume
    /\ pc' = "panic"
    /\ UNCHANGED << vmVars, collectorVars, processVars, compileVars, driverVars, err, ghostVars >>
    /\ UNCHANGED << parserVars, arenaVars >>

\* the top Defer has its operands: emit its call (release build wraps)
CompileDefer ==
    /\ pc = "compile"
    /\ DeferFires(defer_stack, stack_len)
    /\ LET out == CompileDeferStep(memory, stack_len, defer_stack, code_stack)
       IN  IF out.err # NoError THEN CompileFail(out)
           ELSE /\ CompileApply(out)
                /\ UNCHANGED << natives, collectorVars, processVars, c_block, c_pos, c_ret,
                                pc, driverVars, err, ghostVars >>
    /\ UNCHANGED << parserVars, arenaVars >>

\* the next source value
CompileValue ==
    /\ pc = "compile"
    /\ ~DeferFires(defer_stack, stack_len)
    /\ c_pos <= Len(SourceItems)
    /\ LET out == CompileValueStep(memory, SourceItems[c_pos], stack_len, defer_stack, code_stack)
       IN  IF out.err # NoError THEN CompileFail(out)
           ELSE /\ CompileApply(out)
                /\ c_pos' = c_pos + 1
                /\ UNCHANGED << natives, collectorVars, processVars, c_block, c_ret,
                                pc, driverVars, err, ghostVars >>
    /\ UNCHANGED << parserVars, arenaVars >>

\* Process::call
\* a call that pushes the halt sentinel instead of the current ip
ProcessCallNoReturn(cs, i, code) ==
    LET r == ArrayStackPush(cs, 0, CallStackCap)
    IN  IF r.ok THEN [err |-> NoError, call_stack |-> r.s, ip |-> code + BlockSize, ovf |-> NoOverflow]
        ELSE [err |-> "StackOverflow", call_stack |-> r.s, ip |-> i,
              ovf |-> Overflowed("call", cs, r.s)]

ProcessCall(cs, i, code) ==
    LET r == ArrayStackPush(cs, i, CallStackCap)
    IN  IF r.ok THEN [err |-> NoError, call_stack |-> r.s, ip |-> code + BlockSize, ovf |-> NoOverflow]
        ELSE [err |-> "StackOverflow", call_stack |-> r.s, ip |-> i,
              ovf |-> Overflowed("call", cs, r.s)]

\* get_binding that forgets to store the address
SetBindingsDropped(m, block, code) == m

\* `block.bindings = code.address()`
SetBindings(m, block, code) == [m EXCEPT !.heap[block].bindings = code]

\* end of the source: finish the bytecode and return it to the caller
CompileFinish ==
    /\ pc = "compile"
    /\ ~DeferFires(defer_stack, stack_len)
    /\ c_pos > Len(SourceItems)
    /\ LET out == CompileFinishStep(memory, stack_len, defer_stack, code_stack)
       IN  IF out.err # NoError THEN CompileFail(out)
           ELSE /\ stack_len' = out.stack_len
                /\ defer_stack' = out.defer_stack
                /\ code_stack' = out.code_stack
                /\ IF c_ret = "compile"
                   THEN /\ memory' = out.m
                        /\ log' = Append(log, LogEntry("compile", "driver", c_block, out.addr))
                        /\ code_ret' = out.addr
                        /\ last' = "compile"
                        /\ err' = NoError
                        /\ pc' = "ready"
                        /\ UNCHANGED << processVars, ovf >>
                   ELSE IF c_ret = "get_binding"
                   THEN /\ memory' = SetBindings(out.m, c_block, out.addr)
                        /\ log' = log \o << LogEntry("compile", "get_binding", c_block, out.addr),
                                            LogEntry("get_binding", "driver", c_block, out.addr) >>
                        /\ code_ret' = out.addr
                        /\ last' = "get_binding"
                        /\ err' = NoError
                        /\ pc' = "ready"
                        /\ UNCHANGED << processVars, ovf >>
                   ELSE LET c == ProcessCall(call_stack, ip, out.addr)
                        IN  /\ memory' = SetBindings(out.m, c_block, out.addr)
                            /\ log' = log \o << LogEntry("compile", "get_binding", c_block, out.addr),
                                                LogEntry("get_binding", "either", c_block, out.addr),
                                                LogEntry("call", "either", c_block, out.addr) >>
                            /\ call_stack' = c.call_stack
                            /\ ip' = c.ip
                            /\ ovf' = KeepOverflow(c.ovf)
                            /\ IF c.err = NoError
                               THEN /\ pc' = "run" /\ UNCHANGED << err, last >>
                               ELSE /\ pc' = "ready" /\ err' = c.err /\ last' = "exec"
                            /\ UNCHANGED << stack, code_ret >>
                /\ UNCHANGED << natives, collectorVars, c_block, c_pos, c_ret,
                                calls, result, fresh, exec_info >>
    /\ UNCHANGED << parserVars, arenaVars >>

\* ---------------------------------------------------------------------------
\* Reading the arena as bytes (InstructionPointer::read_*)
\* ---------------------------------------------------------------------------
ValueBytes(v) == ToBytes4(v.kind) \o ToBytes4(v.data)

PayloadLen(obj) ==
    IF obj.tag = "code" THEN Len(obj.items)
    ELSE IF obj.tag = "values" THEN Len(obj.items) * ValueSize
    ELSE 0

Holders(m, a) ==
    { o \in DOMAIN m.heap :
        /\ m.heap[o].tag \in {"code", "values"}
        /\ o + BlockSize <= a
        /\ a < o + BlockSize + PayloadLen(m.heap[o]) }

OutOfMemoryByte == -2

UntrackedByte == -1

\* the byte at address a: the payload of a bytecode or value Series, a zero of
\* the unused arena, or a byte this model does not track (headers, tables,
\* strings, descriptors)
ByteAt(m, a) ==
    IF a >= MemSize \/ a < 0 THEN OutOfMemoryByte
    ELSE IF a >= m.heap_top THEN 0
    ELSE IF Holders(m, a) = {} THEN UntrackedByte
    ELSE LET o == CHOOSE h \in Holders(m, a) : TRUE
             off == a - o - BlockSize
         IN  IF m.heap[o].tag = "code" THEN m.heap[o].items[off + 1]
             ELSE ValueBytes(m.heap[o].items[(off \div ValueSize) + 1])[(off % ValueSize) + 1]

ReadBytes(m, a, n) == [k \in 1..n |-> ByteAt(m, a + k - 1)]

OperandLen(op) ==
    IF op = Code_CONST THEN 5
    ELSE IF op \in {Code_WORD, Code_SET_WORD, Code_CALL_FUNC} THEN 4
    ELSE IF op = Code_CALL_NATIVE THEN 2
    ELSE IF op = Code_LEAVE THEN 1
    ELSE 0

Opcode == ByteAt(memory, ip)

Operands == ReadBytes(memory, ip + 1, OperandLen(Opcode))

Tracked(bytes) == \A k \in DOMAIN bytes : bytes[k] # UntrackedByte

InMemory(bytes) == \A k \in DOMAIN bytes : bytes[k] # OutOfMemoryByte

\* ---------------------------------------------------------------------------
\* Process::exec / Process::run
\* ---------------------------------------------------------------------------
RunOut(e, m, i, st, cs, o) ==
    [err |-> e, m |-> m, ip |-> i, stack |-> st, call_stack |-> cs, ovf |-> o]

StackPush(m, i, st, cs, v) ==
    LET r == ArrayStackPush(st, v, StackCap)
    IN  IF r.ok THEN RunOut(NoError, m, i, r.s, cs, NoOverflow)
        ELSE RunOut("StackOverflow", m, i, r.s, cs, Overflowed("stack", st, r.s))

\* Code::CONST
ExecConst(m, i, st, cs, b) ==
    IF ~InMemory(b) THEN RunOut("OutOfBounds", m, i, st, cs, NoOverflow)
    ELSE StackPush(m, i + 6, st, cs, Val(b[1], FromBytes4(SubSeq(b, 2, 5))))

\* Code::WORD
ExecWord(m, i, st, cs, b) ==
    IF ~InMemory(b) THEN RunOut("OutOfBounds", m, i, st, cs, NoOverflow)
    ELSE LET value == GetCell(m, FromBytes4(b))
         IN  IF value.err # NoError THEN RunOut(value.err, m, i + 5, st, cs, NoOverflow)
             ELSE StackPush(m, i + 5, st, cs, value.v)

\* Code::SET_WORD
\* SET_WORD storing a none value instead of the top of the stack
ExecSetWordNone(m, i, st, cs, b) ==
    IF ~InMemory(b) THEN RunOut("OutOfBounds", m, i, st, cs, NoOverflow)
    ELSE IF st = << >> THEN RunOut("StackUnderflow", m, i + 5, st, cs, NoOverflow)
    ELSE LET w == SetCell(m, FromBytes4(b), ValueNone)
         IN  RunOut(w.err, w.m, i + 5, st, cs, NoOverflow)

ExecSetWord(m, i, st, cs, b) ==
    IF ~InMemory(b) THEN RunOut("OutOfBounds", m, i, st, cs, NoOverflow)
    ELSE IF st = << >> THEN RunOut("StackUnderflow", m, i + 5, st, cs, NoOverflow)
    ELSE LET w == SetCell(m, FromBytes4(b), st[Len(st)])
         IN  RunOut(w.err, w.m, i + 5, st, cs, NoOverflow)

\* Code::LEAVE
ExecLeave(m, i, st, cs, b) ==
    IF ~InMemory(b) THEN RunOut("OutOfBounds", m, i, st, cs, NoOverflow)
    ELSE LET r == ArrayStackNip(st, b[1])
         IN  RunOut(IF r.ok THEN NoError ELSE "StackUnderflow", m, i + 2, r.s, cs, NoOverflow)

\* Code::NONE
ExecNone(m, i, st, cs) == StackPush(m, i + 1, st, cs, ValueNone)

\* Code::CALL_FUNC
ExecCallFunc(m, i, st, cs, b) ==
    IF ~InMemory(b) THEN RunOut("OutOfBounds", m, i, st, cs, NoOverflow)
    ELSE LET func == m.heap[FromBytes4(b)]
             body == func.items[2]
             c == ProcessCall(cs, i + 5, body)
         IN  RunOut(c.err, m, c.ip, st, c.call_stack, c.ovf)

\* i32::checked_add
\* i32::wrapping_add
WrappingAdd(a, b) ==
    IF b > 0 /\ a > I32Max - b THEN [ok |-> TRUE, v |-> (a - I32Max - 1) + (b - I32Max - 1)]
    ELSE IF b < 0 /\ a < I32Min - b THEN [ok |-> TRUE, v |-> (a + I32Max + 1) + (b + I32Max + 1)]
    ELSE [ok |-> TRUE, v |-> a + b]

\* i32::checked_add
CheckedAdd(a, b) ==
    IF (b > 0 /\ a > I32Max - b) \/ (b < 0 /\ a < I32Min - b)
    THEN [ok |-> FALSE, v |-> 0]
    ELSE [ok |-> TRUE, v |-> a + b]

\* stdlib add
NativeAdd(m, i, st, cs) ==
    LET p == ArrayStackPopN(st, 2)
        va == p.vs[1]
        vb == p.vs[2]
        sum == CheckedAdd(va.data, vb.data)
    IN  IF ~p.ok THEN RunOut("StackUnderflow", m, i, st, cs, NoOverflow)
        ELSE IF va.kind # Value_INT \/ vb.kind # Value_INT
             THEN RunOut("TypeMismatch", m, i, p.s, cs, NoOverflow)
        ELSE IF ~sum.ok THEN RunOut("IntegerOverflow", m, i, p.s, cs, NoOverflow)
        ELSE StackPush(m, i, p.s, cs, ValueInt(sum.v))

\* stdlib lt
NativeLt(m, i, st, cs) ==
    LET p == ArrayStackPopN(st, 2)
        va == p.vs[1]
        vb == p.vs[2]
    IN  IF ~p.ok THEN RunOut("StackUnderflow", m, i, st, cs, NoOverflow)
        ELSE IF va.kind # Value_INT \/ vb.kind # Value_INT
             THEN RunOut("TypeMismatch", m, i, p.s, cs, NoOverflow)
        ELSE StackPush(m, i, p.s, cs, ValueBool(va.data < vb.data))

\* stdlib func
NativeFunc(m, i, st, cs) ==
    LET p == ArrayStackPopN(st, 2)
        spec == p.vs[1]
        body == p.vs[2]
        arity == Len(m.heap[spec.data].items)
        f == AllocStruct(m, "func", << arity, body.data >>, FuncSize)
    IN  IF ~p.ok THEN RunOut("StackUnderflow", m, i, st, cs, NoOverflow)
        ELSE IF spec.kind # Value_BLOCK \/ body.kind # Value_BLOCK
             THEN RunOut("TypeMismatch", m, i, p.s, cs, NoOverflow)
        ELSE IF f.err # NoError THEN RunOut(f.err, m, i, p.s, cs, NoOverflow)
        ELSE StackPush(f.m, i, p.s, cs, Val(Value_FUNC, f.addr))

\* the result of one instruction: continue the loop or leave exec with Err
RunStep(out) ==
    /\ memory' = out.m
    /\ ip' = out.ip
    /\ stack' = out.stack
    /\ call_stack' = out.call_stack
    /\ IF out.err = NoError THEN UNCHANGED << pc, err, last, ovf >>
       ELSE /\ err' = out.err
            /\ pc' = "ready"
            /\ last' = "exec"
            /\ ovf' = KeepOverflow(out.ovf)
    /\ UNCHANGED << natives, collectorVars, compileVars, calls, result, code_ret,
                    fresh, exec_info, log >>

Running(op) ==
    /\ pc = "run"
    /\ Opcode = op
    /\ Tracked(Operands)

\* Process::new on the same Vm
NewProcess ==
    /\ pc = "ready" /\ ~fresh
    /\ ip' = 0
    /\ stack' = << >>
    /\ call_stack' = << >>
    /\ fresh' = TRUE
    /\ last' = "new"
    /\ err' = NoError
    /\ UNCHANGED << vmVars, collectorVars, compileVars, pc, calls, result, code_ret, exec_info, log, ovf >>
    /\ UNCHANGED << parserVars, arenaVars >>

\* Process::exec: call, then run
DriverExec(code) ==
    /\ pc = "ready"
    /\ calls < MaxCalls + (IF last = "exec" /\ err # NoError THEN MaxRetries ELSE 0)
    /\ HasTag(memory, code, "code")
    /\ calls' = calls + 1
    /\ fresh' = FALSE
    /\ exec_info' = [fresh |-> fresh, code |-> code]
    /\ LET c == ProcessCall(call_stack, ip, code)
       IN  /\ call_stack' = c.call_stack
           /\ ip' = c.ip
           /\ ovf' = KeepOverflow(c.ovf)
           /\ IF c.err = NoError THEN /\ pc' = "run" /\ UNCHANGED << err, last >>
              ELSE /\ err' = c.err /\ last' = "exec" /\ UNCHANGED pc
    /\ UNCHANGED << vmVars, collectorVars, compileVars, stack, result, code_ret, log >>
    /\ UNCHANGED << parserVars, arenaVars >>

StepConst == Running(Code_CONST) /\ RunStep(ExecConst(memory, ip, stack, call_stack, Operands)) /\ UNCHANGED << parserVars, arenaVars >>

StepWord ==
    /\ Running(Code_WORD)
    /\ IsCell(memory, FromBytes4(Operands))
    /\ RunStep(ExecWord(memory, ip, stack, call_stack, Operands))
    /\ UNCHANGED << parserVars, arenaVars >>

\* a SET_WORD that pops the value it stores
StepSetWordPop ==
    /\ Running(Code_SET_WORD)
    /\ IsCell(memory, FromBytes4(Operands))
    /\ LET out == ExecSetWord(memory, ip, stack, call_stack, Operands)
       IN  RunStep([out EXCEPT !.stack = SubSeq(stack, 1, Len(stack) - 1)])
    /\ UNCHANGED << parserVars, arenaVars >>

StepSetWord ==
    /\ Running(Code_SET_WORD)
    /\ IsCell(memory, FromBytes4(Operands))
    /\ RunStep(ExecSetWord(memory, ip, stack, call_stack, Operands))
    /\ UNCHANGED << parserVars, arenaVars >>

StepLeave == Running(Code_LEAVE) /\ RunStep(ExecLeave(memory, ip, stack, call_stack, Operands)) /\ UNCHANGED << parserVars, arenaVars >>

StepNone == Running(Code_NONE) /\ RunStep(ExecNone(memory, ip, stack, call_stack)) /\ UNCHANGED << parserVars, arenaVars >>

StepCallFunc ==
    /\ Running(Code_CALL_FUNC)
    /\ HasTag(memory, FromBytes4(Operands), "func")
    /\ RunStep(ExecCallFunc(memory, ip, stack, call_stack, Operands))
    /\ UNCHANGED << parserVars, arenaVars >>

\* the loop is left: run pops the result off the operand stack
RunReturn(i, cs) ==
    LET p == ArrayStackPop(stack)
    IN  /\ ip' = i
        /\ call_stack' = cs
        /\ stack' = p.s
        /\ pc' = "ready"
        /\ last' = "exec"
        /\ IF p.ok THEN /\ result' = p.v /\ err' = NoError
           ELSE /\ err' = "StackUnderflow" /\ UNCHANGED result
        /\ UNCHANGED << vmVars, collectorVars, compileVars, calls, code_ret, ghostVars >>

\* Code::RET
StepRet ==
    /\ Running(Code_RET)
    /\ LET p == ArrayStackPop(call_stack)
       IN  IF ~p.ok
           THEN RunStep(RunOut("StackUnderflow", memory, ip + 1, stack, call_stack, NoOverflow))
           ELSE IF p.v = 0 THEN RunReturn(p.v, p.s)
           ELSE RunStep(RunOut(NoError, memory, p.v, stack, p.s, NoOverflow))
    /\ UNCHANGED << parserVars, arenaVars >>

\* an opcode outside Code::*
StepInvalid ==
    /\ pc = "run"
    /\ Opcode > Code_CALL_FUNC
    /\ RunStep(RunOut("InvalidCode", memory, ip + 1, stack, call_stack, NoOverflow))
    /\ UNCHANGED << parserVars, arenaVars >>

\* execution reached bytes whose content this model does not track
StepUntracked ==
    /\ pc = "run"
    /\ \/ Opcode = UntrackedByte
       \/ Opcode >= 0 /\ ~Tracked(Operands)
       \/ Opcode \in {Code_WORD, Code_SET_WORD} /\ Tracked(Operands) /\ InMemory(Operands)
            /\ ~IsCell(memory, FromBytes4(Operands))
       \/ Opcode = Code_CALL_FUNC /\ Tracked(Operands) /\ InMemory(Operands)
            /\ ~HasTag(memory, FromBytes4(Operands), "func")
    /\ pc' = "untracked"
    /\ UNCHANGED << vmVars, collectorVars, processVars, compileVars, driverVars, err, ghostVars >>
    /\ UNCHANGED << parserVars, arenaVars >>

NativeId == FromBytes2(Operands)

\* a dispatch that takes the entry behind the one the id names
NativeIsNext(name) ==
    /\ Running(Code_CALL_NATIVE)
    /\ NativeId + 1 < Len(natives)
    /\ natives[NativeId + 2] = name

NativeIs(name) ==
    /\ Running(Code_CALL_NATIVE)
    /\ NativeId < Len(natives)
    /\ natives[NativeId + 1] = name

StepNativeAdd == NativeIs("add") /\ RunStep(NativeAdd(memory, ip + 3, stack, call_stack)) /\ UNCHANGED << parserVars, arenaVars >>

StepNativeLt == NativeIs("lt") /\ RunStep(NativeLt(memory, ip + 3, stack, call_stack)) /\ UNCHANGED << parserVars, arenaVars >>

StepNativeFunc ==
    /\ NativeIs("func")
    /\ Len(stack) >= 2 => \A k \in {Len(stack) - 1, Len(stack)} :
            stack[k].kind = Value_BLOCK => HasTag(memory, stack[k].data, "values")
    /\ RunStep(NativeFunc(memory, ip + 3, stack, call_stack))
    /\ UNCHANGED << parserVars, arenaVars >>

StepBadNative ==
    /\ Running(Code_CALL_NATIVE)
    /\ NativeId >= Len(natives)
    /\ RunStep(RunOut("BadNativeFunctionIndex", memory, ip + 3, stack, call_stack, NoOverflow))
    /\ UNCHANGED << parserVars, arenaVars >>

\* stdlib either: pick a block, get_binding (compiling it on first use), call
\* either with its branches exchanged
EitherBlockSwapped(cond, if_true, if_false) == IF cond.data # 0 THEN if_false ELSE if_true

\* `if cond { if_true } else { if_false }`
EitherBlock(cond, if_true, if_false) == IF cond.data # 0 THEN if_true ELSE if_false

StepNativeEither ==
    /\ NativeIs("either")
    /\ LET p == ArrayStackPopN(stack, 3)
           cond == p.vs[1]
           block == EitherBlock(cond, p.vs[2], p.vs[3])
           series == block.data
           bindings == memory.heap[series].bindings
           c == ProcessCall(call_stack, ip + 3, bindings)
       IN  IF ~p.ok
           THEN RunStep(RunOut("StackUnderflow", memory, ip + 3, stack, call_stack, NoOverflow))
           ELSE IF cond.kind # Value_BOOL \/ block.kind # Value_BLOCK
           THEN RunStep(RunOut("TypeMismatch", memory, ip + 3, p.s, call_stack, NoOverflow))
           ELSE IF ~HasTag(memory, series, "values")
           THEN /\ pc' = "untracked"
                /\ UNCHANGED << vmVars, collectorVars, processVars, compileVars, driverVars,
                                err, ghostVars >>
           ELSE IF bindings # 0
           THEN /\ ip' = c.ip
                /\ stack' = p.s
                /\ call_stack' = c.call_stack
                /\ ovf' = KeepOverflow(c.ovf)
                /\ log' = log \o << LogEntry("get_binding", "either", series, bindings),
                                    LogEntry("call", "either", series, bindings) >>
                /\ IF c.err = NoError THEN UNCHANGED << pc, err, last >>
                   ELSE /\ pc' = "ready" /\ err' = c.err /\ last' = "exec"
                /\ UNCHANGED << vmVars, collectorVars, compileVars, calls, result, code_ret,
                                fresh, exec_info >>
           ELSE /\ ip' = ip + 3
                /\ stack' = p.s
                /\ CompileBegin(series, "either")
                /\ UNCHANGED << vmVars, collectorVars, call_stack, driverVars, err, ghostVars >>
    /\ UNCHANGED << parserVars, arenaVars >>

Next ==
    \/ ParseStart
    \/ CollectInteger
    \/ CollectFloat
    \/ CollectString
    \/ CollectWord
    \/ CollectBeginBlock
    \/ CollectEndBlock
    \/ CollectBeginPath
    \/ CollectEndPath
    \/ ParseFinish
    \/ \E block \in DOMAIN memory.heap : DriverCompile(block)
    \/ \E block \in DOMAIN memory.heap : DriverGetBinding(block)
    \/ CompilePanic
    \/ CompileDefer
    \/ CompileValue
    \/ CompileFinish
    \/ NewProcess
    \/ \E code \in DOMAIN memory.heap : DriverExec(code)
    \/ StepConst
    \/ StepWord
    \/ StepSetWord
    \/ StepLeave
    \/ StepNone
    \/ StepRet
    \/ StepCallFunc
    \/ StepNativeAdd
    \/ StepNativeLt
    \/ StepNativeEither
    \/ StepNativeFunc
    \/ StepBadNative
    \/ StepInvalid
    \/ StepUntracked

Spec == Init /\ [][Next]_vars

\* ---------------------------------------------------------------------------
\* Parser (parse.rs): texts
\* ---------------------------------------------------------------------------
\* a text is a sequence of one-character strings

\* bound on the length of the enumerated texts
ParseLen == 3

ParseAlphabet == { "a", "1", ":", "/", "[", "]", " ", "-", "\"", "." }

\* texts of every shape up to ParseLen characters
EnumTexts == UNION { [1..k -> ParseAlphabet] : k \in 0..ParseLen }

\* the inputs of the parser tests (parse.rs 617-790)
TestTexts ==
    { << "[", "w", "o", "r", "d", " ", "s", "e", "t", "-", "w", "o", "r", "d", ":", " ",
         ":", "g", "e", "t", "-", "w", "o", "r", "d", "]" >>,
      << "[", "w", "o", "r", "d", "/", "p", "a", "t", "h", "/", "i", "t", "e", "m", " ",
         "w", "o", "r", "d", "/", "i", "t", "e", "m", "]" >>,
      << "[", "]" >>,
      << "[", "\"", "i", "n", "v", "a", "l", "i", "d", " ", "\\", "z", " ", "e", "s",
         "c", "a", "p", "e", "\"", "]" >>,
      << "[", "\"", "u", "n", "c", "l", "o", "s", "e", "d", " ", "s", "t", "r", "i", "n",
         "g", "]" >>,
      << "[", ":", "]" >>,
      << "[", "9", "9", "9", "9", "9", "9", "9", "9", "9", "9", "9", "]" >>,
      << "[", "3", ".", "1", "4", ".", "1", "5", "9", "]" >>,
      << "[", "1", "2", "a", "b", "c", "]" >>,
      << "[", "w", "o", "r", "d", " ", "1", "2", "3", " ", "\"", "s", "t", "r", "i", "n",
         "g", "\"", "]" >>,
      << "w", "o", "r", "d", " ", "1", "2", "3", " ", "\"", "s", "t", "r", "i", "n", "g",
         "\"" >>,
      << "[", "3", ".", "1", "4", " ", "-", "2", ".", "5", " ", "0", ".", "0", " ", "+",
         "1", "0", ".", "7", "5", "]" >>,
      << "w", "o", "r", "d", "2", ":", " ", "-", "4", "5", "6", " ", "[", "n", "e", "s",
         "t", "e", "d", "]", " ", ";", " ", "n", "o", "t", "e", "\n", "\"", "a", "\\",
         "n", "\\", "\"", "b", "\\", "\\", "\"" >> }

\* paths and what can end them
PathTexts ==
    { << "a", "/", "b" >>,
      << "a", "/", "b", "/", "c" >>,
      << "a", "/", "b", " ", "c" >>,
      << "[", "a", "/", "b", "]" >>,
      << "a", "/", "b", "]", " ", "c" >>,
      << "a", "/", "b", "\n", "c", "/", "d" >>,
      << "a", "/", "b", ":", " ", "1" >>,
      << "a", "/", ":", "b", " ", "c" >>,
      << "a", "/", " ", "b", " ", "c" >>,
      << "a", "/", "b", " ", ";", " ", "x", "\n", "c" >>,
      << "a", "/", "1", " ", "b" >>,
      << "a", "/", "1", "]", " ", "b" >>,
      << "a", "/", "\"", "s", "\"", " ", "b" >>,
      << "a", "/", "[", "b", "]", " ", "c" >>,
      << "a", "/", "b", "/", " ", "c" >>,
      << "a", "/" >>,
      << "a", "/", "b", "/" >>,
      << "x", " ", "a", "/", "b", "/", "c", "/", "d", " ", "y" >> }

\* words and their colons
WordTexts ==
    { << "x" >>,
      << "x", ":" >>,
      << ":", "x" >>,
      << ":", "x", ":" >>,
      << "x", ":", "y" >>,
      << "x", ":", " ", "y" >>,
      << "a", "-", "b", "?", ":", " ", "c", "_", "1" >>,
      << ":", "a", "-", "1", " ", "b" >>,
      << "<" >>,
      << ">", " ", "x" >>,
      << "<", "x", ":" >>,
      << ":", ":" >>,
      << ":" >>,
      << "x", ":", ":" >>,
      << ":", "x", "/", "y" >>,
      << "x", ":", "]" >>,
      << "[", ":", "x", "]" >>,
      << "x", "!" >>,
      << "+" >>,
      << "-", " ", "x" >>,
      << "+", ":" >> }

\* integer literals at and around the ends of the i32 range
NumberTexts ==
    { << "0" >>,
      << "-", "0" >>,
      << "+", "0" >>,
      << "7" >>,
      << "-", "7" >>,
      << "+", "7" >>,
      << "0", "0", "7" >>,
      << "2", "1", "4", "7", "4", "8", "3", "6", "4", "7" >>,
      << "2", "1", "4", "7", "4", "8", "3", "6", "4", "8" >>,
      << "+", "2", "1", "4", "7", "4", "8", "3", "6", "4", "7" >>,
      << "+", "2", "1", "4", "7", "4", "8", "3", "6", "4", "8" >>,
      << "-", "2", "1", "4", "7", "4", "8", "3", "6", "4", "7" >>,
      << "-", "2", "1", "4", "7", "4", "8", "3", "6", "4", "8" >>,
      << "-", "2", "1", "4", "7", "4", "8", "3", "6", "4", "9" >>,
      << "0", "2", "1", "4", "7", "4", "8", "3", "6", "4", "7" >>,
      << "0", "0", "0", "0", "0", "0", "0", "0", "0", "0", "1" >>,
      << "2", "1", "4", "7", "4", "8", "3", "6", "5", "0" >>,
      << "2", "1", "4", "7", "4", "8", "3", "6", "4", "7", "0" >>,
      << "-", "2", "1", "4", "7", "4", "8", "3", "6", "4", "8", "0" >>,
      << "4", "2", "9", "4", "9", "6", "7", "2", "9", "6" >>,
      << "-", "1" >>,
      << "2", "1", "4", "7", "4", "8", "3", "6", "4", "7", "]" >>,
      << "-", "2", "1", "4", "7", "4", "8", "3", "6", "4", "8", " ", "x" >>,
      << "[", "2", "1", "4", "7", "4", "8", "3", "6", "4", "8", "]" >>,
      << "1", "2", " ", "-", "3", "4" >>,
      << "1", ".", "5" >>,
      << "1", "x" >> }

ParseTexts == EnumTexts \cup TestTexts \cup PathTexts \cup WordTexts \cup NumberTexts

\* ---------------------------------------------------------------------------
\* Parser (parse.rs): characters and events
\* ---------------------------------------------------------------------------
\* char::is_ascii_whitespace
Whitespace == { " ", "\t", "\n", "\r", "\f" }

Digits == << "0", "1", "2", "3", "4", "5", "6", "7", "8", "9" >>

\* char::is_ascii_digit
DigitChars == { Digits[i] : i \in DOMAIN Digits }

\* char::to_digit(10)
ToDigit(c) == (CHOOSE i \in DOMAIN Digits : Digits[i] = c) - 1

\* char::is_ascii_alphabetic
Letters ==
    { "a", "b", "c", "d", "e", "f", "g", "h", "i", "j", "k", "l", "m",
      "n", "o", "p", "q", "r", "s", "t", "u", "v", "w", "x", "y", "z",
      "A", "B", "C", "D", "E", "F", "G", "H", "I", "J", "K", "L", "M",
      "N", "O", "P", "Q", "R", "S", "T", "U", "V", "W", "X", "Y", "Z" }

\* a call of a Collector method: the method, the WordKind, the text, the i32
Event(e, kind, s, v) == [e |-> e, kind |-> kind, s |-> s, v |-> v]

BeginBlock == Event("begin_block", "", << >>, 0)

EndBlock == Event("end_block", "", << >>, 0)

BeginPath == Event("begin_path", "", << >>, 0)

EndPath == Event("end_path", "", << >>, 0)

\* Result<(), ParserError>; UnexpectedChar carries the character
PResult(e, c) == [err |-> e, char |-> c]

POk == PResult("ok", "")

\* the collector of this model records the call and returns Ok
Emit(p, ev) == [p EXCEPT !.collector = Append(@, ev)]

\* what a token parser returns: the parser state, the Result, and the
\* terminator it consumed ("" for None)
POut(p, r, consumed) == [p |-> p, r |-> r, consumed |-> consumed]

\* ---------------------------------------------------------------------------
\* Parser (parse.rs): the token parsers
\* ---------------------------------------------------------------------------
RECURSIVE SkipComment(_, _)
\* `;` to the end of the line; c is the number of characters consumed
SkipComment(text, c) ==
    IF c >= Len(text) THEN c
    ELSE IF text[c + 1] = "\n" THEN c + 1
    ELSE SkipComment(text, c + 1)

RECURSIVE SkipWhitespace(_, _)
\* Parser::skip_whitespace: the next character that starts a token
SkipWhitespace(text, c) ==
    IF c >= Len(text) THEN [found |-> FALSE, cursor |-> c, pos |-> c, char |-> ""]
    ELSE IF text[c + 1] \in Whitespace THEN SkipWhitespace(text, c + 1)
    ELSE IF text[c + 1] = ";" THEN SkipWhitespace(text, SkipComment(text, c + 1))
    ELSE [found |-> TRUE, cursor |-> c + 1, pos |-> c, char |-> text[c + 1]]

\* the escape sequences of a string
Escaped == [c \in { "n", "r", "t", "\"", "\\" } |->
                IF c = "n" THEN "\n" ELSE IF c = "r" THEN "\r" ELSE IF c = "t" THEN "\t" ELSE c]

RECURSIVE StringBody(_, _, _, _)
StringBody(text, c, acc, escaped) ==
    IF c >= Len(text) THEN [r |-> PResult("EndOfInput", ""), cursor |-> c, s |-> acc]
    ELSE LET char == text[c + 1]
         IN  IF escaped
             THEN IF char \in DOMAIN Escaped
                  THEN StringBody(text, c + 1, Append(acc, Escaped[char]), FALSE)
                  ELSE [r |-> PResult("UnexpectedChar", char), cursor |-> c + 1, s |-> acc]
             ELSE IF char = "\\" THEN StringBody(text, c + 1, acc, TRUE)
             ELSE IF char = "\"" THEN [r |-> POk, cursor |-> c + 1, s |-> acc]
             ELSE StringBody(text, c + 1, Append(acc, char), FALSE)

\* Parser::parse_string, called after the opening quote
ParseString(p) ==
    LET b == StringBody(p.input, p.cursor, << >>, FALSE)
        q == [p EXCEPT !.cursor = b.cursor]
    IN  IF b.r # POk THEN POut(q, b.r, "")
        ELSE POut(Emit(q, Event("string", "", b.s, 0)), POk, "")

\* Parser::collect_word
ParserCollectWord(p, symbol, kind, consumed) ==
    LET q == IF consumed = "/" /\ ~p.in_path
             THEN Emit([p EXCEPT !.in_path = TRUE], BeginPath)
             ELSE p
    IN  POut(Emit(q, Event("word", kind, symbol, 0)), POk, consumed)

\* the characters a word goes on with
WordChars == Letters \cup DigitChars \cup { "_", "-", "?" }

RECURSIVE WordBody(_, _, _, _)
\* the loop of parse_word: up to the terminator or the end of the input
WordBody(text, c, start_pos, kind) ==
    IF c >= Len(text) THEN [r |-> POk, cursor |-> c, kind |-> kind, consumed |-> ""]
    ELSE LET char == text[c + 1]
             pos == c
         IN  IF char = ":"
             THEN IF pos # start_pos
                  THEN [r |-> POk, cursor |-> c + 1, kind |-> "SetWord", consumed |-> char]
                  ELSE WordBody(text, c + 1, start_pos, kind)
             ELSE IF char \in { "]", "/" }
             THEN [r |-> POk, cursor |-> c + 1, kind |-> kind, consumed |-> char]
             ELSE IF char \in WordChars THEN WordBody(text, c + 1, start_pos, kind)
             ELSE IF char \in Whitespace
             THEN [r |-> POk, cursor |-> c + 1, kind |-> kind, consumed |-> char]
             ELSE [r |-> PResult("UnexpectedChar", char), cursor |-> c + 1,
                   kind |-> kind, consumed |-> ""]

\* Parser::parse_word, called after the character at start_pos
ParseWord(p, start_pos) ==
    LET get == p.input[start_pos + 1] = ":"
        word_start == IF get THEN start_pos + 1 ELSE start_pos
        b == WordBody(p.input, p.cursor, start_pos, IF get THEN "GetWord" ELSE "Word")
        q == [p EXCEPT !.cursor = b.cursor]
        pos == b.cursor - (IF b.consumed # "" THEN 1 ELSE 0)
    IN  IF b.r # POk THEN POut(q, b.r, "")
        ELSE IF pos <= word_start THEN POut(q, PResult("EmptyWord", ""), "")
        ELSE ParserCollectWord(q, SubSeq(p.input, word_start + 1, pos), b.kind, b.consumed)

\* int_value.checked_mul(10).and_then(|v| v.checked_add(digit)), int_value >= 0
\* the same on a wrapping i32
WrappingMulAdd(v, digit) ==
    IF v > I32Max \div 10 THEN [ok |-> TRUE, v |-> (v % (I32Max \div 10 + 1)) * 10 + digit]
    ELSE IF v * 10 > I32Max - digit THEN [ok |-> TRUE, v |-> (v * 10 - I32Max - 1) + digit + I32Min]
    ELSE [ok |-> TRUE, v |-> v * 10 + digit]

CheckedMulAdd(v, digit) ==
    IF v > I32Max \div 10 THEN [ok |-> FALSE, v |-> 0]
    ELSE IF v * 10 > I32Max - digit THEN [ok |-> FALSE, v |-> 0]
    ELSE [ok |-> TRUE, v |-> v * 10 + digit]

RECURSIVE NumberBody(_, _, _)
\* the loop of parse_number; n holds its local variables (frac: the digits
\* after the point, which the code adds up in f32)
NumberBody(text, c, n) ==
    IF c >= Len(text) THEN [n EXCEPT !.cursor = c]
    ELSE LET char == text[c + 1]
             m == [n EXCEPT !.cursor = c + 1]
             next == CheckedMulAdd(n.int_value, ToDigit(char))
         IN  IF char = "." /\ ~n.is_float
             THEN NumberBody(text, c + 1, [n EXCEPT !.is_float = TRUE])
             ELSE IF char \in DigitChars
             THEN IF n.is_float
                  THEN NumberBody(text, c + 1,
                           [n EXCEPT !.has_digits = TRUE, !.frac = Append(@, ToDigit(char))])
                  ELSE IF ~next.ok THEN [m EXCEPT !.r = PResult("IntegerOverflow", "")]
                  ELSE NumberBody(text, c + 1,
                           [n EXCEPT !.has_digits = TRUE, !.int_value = next.v])
             ELSE IF char = "]" THEN [m EXCEPT !.consumed = char]
             ELSE IF char \in Whitespace THEN m
             ELSE [m EXCEPT !.r = PResult("UnexpectedChar", char)]

\* Parser::parse_number, called after its first character
ParseNumber(p, char) ==
    LET is_negative == char = "-"
        first == [r |-> POk, cursor |-> p.cursor, consumed |-> "", is_float |-> FALSE,
                  frac |-> << >>,
                  has_digits |-> char \in DigitChars,
                  int_value |-> IF char \in DigitChars THEN ToDigit(char) ELSE 0]
        n == NumberBody(p.input, p.cursor, first)
        q == [p EXCEPT !.cursor = n.cursor]
    IN  IF char \notin DigitChars \cup { "+", "-" } THEN POut(p, PResult("UnexpectedChar", char), "")
        ELSE IF n.r # POk THEN POut(q, n.r, "")
        ELSE IF ~n.has_digits
        THEN POut(Emit(q, Event("word", "Word", << char >>, 0)), POk, n.consumed)
        ELSE IF n.is_float
        THEN POut(Emit(q, Event("float", IF is_negative THEN "-" ELSE "", n.frac, n.int_value)),
                  POk, n.consumed)
        ELSE POut(Emit(q, Event("integer", "", << >>,
                                IF is_negative THEN 0 - n.int_value ELSE n.int_value)),
                  POk, n.consumed)

\* Parser::process_block_end
\* a process_block_end that closes the block before the path
ProcessBlockEndLate(p, consumed) ==
    LET q == IF consumed = "]" THEN Emit(p, EndBlock) ELSE p
    IN  IF consumed # "/" /\ p.in_path
        THEN Emit([q EXCEPT !.in_path = FALSE], EndPath)
        ELSE q

ProcessBlockEnd(p, consumed) ==
    LET q == IF consumed # "/" /\ p.in_path
             THEN Emit([p EXCEPT !.in_path = FALSE], EndPath)
             ELSE p
    IN  IF consumed = "]" THEN Emit(q, EndBlock) ELSE q

\* one turn of the loop of Parser::do_parse: skip to the next token, parse it,
\* process_block_end; `end` when skip_whitespace finds nothing
DoParseToken(p) ==
    LET w == SkipWhitespace(p.input, p.cursor)
        q == [p EXCEPT !.cursor = w.cursor]
        t == IF w.char = "[" THEN POut(Emit(q, BeginBlock), POk, "")
             ELSE IF w.char = "]" THEN POut(q, POk, w.char)
             ELSE IF w.char = "\"" THEN ParseString(q)
             ELSE IF w.char = ":" THEN ParseWord(q, w.pos)
             ELSE IF w.char \in Letters \cup { "<", ">" } THEN ParseWord(q, w.pos)
             ELSE IF w.char \in DigitChars \cup { "+", "-" } THEN ParseNumber(q, w.char)
             ELSE POut(q, PResult("UnexpectedChar", w.char), "")
    IN  IF ~w.found THEN [end |-> TRUE, p |-> q, r |-> POk]
        ELSE IF t.r # POk THEN [end |-> FALSE, p |-> t.p, r |-> t.r]
        ELSE [end |-> FALSE, p |-> ProcessBlockEnd(t.p, t.consumed), r |-> POk]

\* ---------------------------------------------------------------------------
\* Parser (parse.rs): a caller that parses a text with Parser::parse and then
\* with Parser::parse_block, each time into a new recording collector
\* ---------------------------------------------------------------------------
ParserInit ==
    /\ source = << >>
    /\ CoreInit
    /\ parser \in { ParserNew(text) : text \in ParseTexts }
    /\ entry = "none"
    /\ ppc = "start"
    /\ presult = PResult("none", "")
    /\ parsed = NotParsed
    /\ ArenaIdle

\* Parser::parse
Parse ==
    /\ ppc = "start"
    /\ parser' = ParserNew(parser.input)
    /\ entry' = "parse"
    /\ ppc' = "do_parse"
    /\ UNCHANGED << presult, parsed, coreVars, arenaVars >>

\* Parser::parse_block, up to the call of do_parse
ParseBlock ==
    /\ ppc = "returned" /\ entry = "parse"
    /\ parsed' = [collector |-> parser.collector, result |-> presult]
    /\ parser' = Emit(ParserNew(parser.input), BeginBlock)
    /\ entry' = "parse_block"
    /\ ppc' = "do_parse"
    /\ presult' = PResult("none", "")
    /\ UNCHANGED << coreVars, arenaVars >>

\* a token is parsed and its events are delivered
DoParseStep ==
    /\ ppc = "do_parse"
    /\ LET t == DoParseToken(parser)
       IN  /\ ~t.end /\ t.r = POk
           /\ parser' = t.p
    /\ UNCHANGED << entry, ppc, presult, parsed, coreVars, arenaVars >>

\* a token parser returns Err and `?` passes it to the caller
DoParseFail ==
    /\ ppc = "do_parse"
    /\ LET t == DoParseToken(parser)
       IN  /\ ~t.end /\ t.r # POk
           /\ parser' = t.p
           /\ presult' = t.r
    /\ ppc' = "returned"
    /\ UNCHANGED << entry, parsed, coreVars, arenaVars >>

\* the end of the input: do_parse returns Ok to Parser::parse
ParseReturn ==
    /\ ppc = "do_parse" /\ entry = "parse"
    /\ LET t == DoParseToken(parser)
       IN  /\ t.end
           /\ parser' = t.p
    /\ presult' = POk
    /\ ppc' = "returned"
    /\ UNCHANGED << entry, parsed, coreVars, arenaVars >>

\* the end of the input: do_parse returns Ok to Parser::parse_block, which
\* closes the block
\* a parse_block that returns without the closing end_block
ParseBlockReturnUnclosed ==
    /\ ppc = "do_parse" /\ entry = "parse_block"
    /\ LET t == DoParseToken(parser)
       IN  /\ t.end
           /\ parser' = t.p
    /\ presult' = POk
    /\ ppc' = "returned"
    /\ UNCHANGED << entry, parsed, coreVars, arenaVars >>

ParseBlockReturn ==
    /\ ppc = "do_parse" /\ entry = "parse_block"
    /\ LET t == DoParseToken(parser)
       IN  /\ t.end
           /\ parser' = Emit(t.p, EndBlock)
    /\ presult' = POk
    /\ ppc' = "returned"
    /\ UNCHANGED << entry, parsed, coreVars, arenaVars >>

ParserNext ==
    \/ Parse
    \/ ParseBlock
    \/ DoParseStep
    \/ DoParseFail
    \/ ParseReturn
    \/ ParseBlockReturn

ParserSpec == ParserInit /\ [][ParserNext]_vars

\* Memory::init on a zeroed slice; the parse stack and the parse base are the
\* first two handles
ArenaInit ==
    /\ source = << >>
    /\ CoreInit
    /\ parser = ParserNew(<< >>)
    /\ entry = "none"
    /\ ppc = "idle"
    /\ presult = [err |-> "none", char |-> ""]
    /\ parsed = NotParsed
    /\ arena = MemoryInit([i \in 1..MemoryWords |-> 0], RegionSizes).m
    /\ handles = << Handle("stack", GetRegion(arena, LAYOUT_PARSE_STACK), "VmValue", << >>),
                    Handle("stack", GetRegion(arena, LAYOUT_PARSE_BASE), "Word", << >>) >>
    /\ lastRet = NoRet
    /\ nops = 0

ParseStack == LAYOUT_PARSE_STACK

ParseBase == LAYOUT_PARSE_BASE

SymbolTable == GetRegion(arena, LAYOUT_SYMBOL_TABLE)

Heap == GetRegion(arena, LAYOUT_HEAP)

StackHandles == { h \in DOMAIN handles : handles[h].kind = "stack" }

ArenaFrame == UNCHANGED << coreVars, parserVars >>

\* the first n items of a sequence
Take(items, n) == SubSeq(items, 1, n)

\* the items of a sequence after the first n
Drop(items, n) == SubSeq(items, n + 1, Len(items))

\* Arena::alloc_stack on the heap
DoAllocStack(type, cap_items) ==
    /\ nops < MaxOps
    /\ LET r == ArenaAllocStack(arena, Heap, type, cap_items)
       IN  /\ arena' = r.m
           /\ handles' = IF r.ok THEN Append(handles, Handle("stack", r.v, type, << >>))
                         ELSE handles
           /\ lastRet' = Ret("alloc_stack", 0, r.ok, r.v)
    /\ nops' = nops + 1
    /\ ArenaFrame

\* Arena::alloc_string on the heap
DoAllocString(string) ==
    /\ nops < MaxOps
    /\ LET r == ArenaAllocString(arena, Heap, string)
       IN  /\ arena' = r.m
           /\ handles' = IF r.ok THEN Append(handles, Handle("block", r.v, "u8", string))
                         ELSE handles
           /\ lastRet' = Ret("alloc_string", 0, r.ok, r.v)
    /\ nops' = nops + 1
    /\ ArenaFrame

\* Stack::push
DoPush(h, item) ==
    /\ nops < MaxOps
    /\ LET r == Stack_push(arena, handles[h].addr, handles[h].type, item)
       IN  /\ arena' = r.m
           /\ handles' = IF r.ok THEN [handles EXCEPT ![h].items = Append(@, item)]
                         ELSE handles
           /\ lastRet' = Ret("push", h, r.ok, item)
    /\ nops' = nops + 1
    /\ ArenaFrame

\* Stack::pop
DoPop(h) ==
    /\ nops < MaxOps
    /\ LET r == Stack_pop(arena, handles[h].addr, handles[h].type)
       IN  /\ arena' = r.m
           /\ handles' = IF r.ok
                         THEN [handles EXCEPT ![h].items = Take(@, Len(@) - 1)]
                         ELSE handles
           /\ lastRet' = Ret("pop", h, r.ok, r.v)
    /\ nops' = nops + 1
    /\ ArenaFrame

\* Stack::cut_block to the heap: the last `items` items; the Block returned is
\* the handle added
DoCutBlock(h, items) ==
    /\ nops < MaxOps
    /\ LET r == CutBlock(arena, handles[h].addr, handles[h].type, Heap, items)
           pos == Len(handles[h].items) - items
       IN  /\ arena' = r.m
           /\ handles' =
                  IF r.ok
                  THEN Append([handles EXCEPT ![h].items = Take(@, pos)],
                              Handle("block", r.v, handles[h].type, Drop(handles[h].items, pos)))
                  ELSE handles
           /\ lastRet' = Ret("cut_block", h, r.ok, items)
    /\ nops' = nops + 1
    /\ ArenaFrame

\* SymbolTable::get_or_insert_symbol: the driver keeps every address returned
DoInsertSymbol(symbol) ==
    /\ nops < MaxOps
    /\ LET r == GetOrInsertSymbol(arena, SymbolTable, Heap, symbol, xxh32(symbol))
       IN  /\ arena' = r.m
           /\ handles' = IF r.ok THEN Append(handles, Handle("symbol", r.v, "u8", symbol))
                         ELSE handles
           /\ lastRet' = Ret("get_or_insert_symbol", 0, r.ok, r.v)
    /\ nops' = nops + 1
    /\ ArenaFrame

\* Memory::begin
DoBegin ==
    /\ nops < MaxOps
    /\ LET r == MemoryBegin(arena)
       IN  /\ arena' = r.m
           /\ handles' = IF r.ok
                         THEN [handles EXCEPT ![ParseBase].items =
                                                  Append(@, Len(handles[ParseStack].items))]
                         ELSE handles
           /\ lastRet' = Ret("begin", 0, r.ok, 0)
    /\ nops' = nops + 1
    /\ ArenaFrame

\* Memory::end: the base it popped stays popped when the cut fails
DoEnd ==
    /\ nops < MaxOps
    /\ LET r == MemoryEnd(arena)
           base == handles[ParseBase].items
           values == handles[ParseStack].items
           offset == base[Len(base)]
           popped == [handles EXCEPT ![ParseBase].items = Take(base, Len(base) - 1)]
       IN  /\ arena' = r.m
           /\ handles' =
                  IF r.ok
                  THEN Append([popped EXCEPT ![ParseStack].items = Take(values, offset)],
                              Handle("block", r.v, "VmValue", Drop(values, offset)))
                  ELSE IF base # << >> THEN popped
                  ELSE handles
           /\ lastRet' = Ret("end", 0, r.ok, r.v)
    /\ nops' = nops + 1
    /\ ArenaFrame

ArenaNext ==
    \/ DoAllocStack(NewStack.type, NewStack.cap_items)
    \/ DoAllocString(NewString)
    \/ \E h \in StackHandles : \E item \in ItemsOf(handles[h].type) : DoPush(h, item)
    \/ \E h \in StackHandles : DoPop(h)
    \/ \E h \in StackHandles : \E items \in 1..2 : DoCutBlock(h, items)
    \/ \E symbol \in Symbols : DoInsertSymbol(symbol)
    \/ DoBegin
    \/ DoEnd

ArenaSpec == ArenaInit /\ [][ArenaNext]_vars

\* ---------------------------------------------------------------------------
\* Properties
\* ---------------------------------------------------------------------------

\* a call of the driver has returned
Returned(op) == pc = "ready" /\ last = op

\* the bytecode addresses Process::compile has returned for a block
CompiledFrom(block) ==
    { log[i].addr : i \in { j \in DOMAIN log : log[j].op = "compile" /\ log[j].block = block } }

\* exec has returned, it ran on a new Process, and its argument was bytecode
\* compiled from the parsed source block
ExecOfRoot ==
    /\ Returned("exec")
    /\ exec_info.fresh
    /\ exec_info.code \in CompiledFrom(root.data)

\* exec has returned Ok on a new Process, for bytecode compile returned
ExecSucceeded ==
    /\ Returned("exec")
    /\ err = NoError
    /\ exec_info.fresh
    /\ \E i \in DOMAIN log : log[i].op = "compile" /\ log[i].addr = exec_info.code

\* C1: a successful exec, on a new Process, of bytecode compiled from a source
\* block has popped its result off an operand stack that held exactly that one
\* value: the operand stack is empty when exec returns.
ExecEndsWithOneValue == ExecSucceeded => stack = << >>

\* Value as the collector stores a parsed literal token
LiteralValue(m, tok, at) ==
    IF tok.t = "int" THEN ValueInt(tok.v)
    ELSE IF tok.t = "float" THEN Val(Value_FLOAT, tok.v)
    ELSE m.heap[root.data].items[at]

IsLiteral(tok) == tok.t \in { "int", "float", "string" }

\* the text `x: V x`: a set-word, one literal (a scalar or a flat block of
\* integers), the same word
SetThenGet(p) ==
    /\ Len(p) >= 3
    /\ p[1].t = "setword" /\ p[Len(p)].t = "word" /\ p[1].n = p[Len(p)].n
    /\ \/ Len(p) = 3 /\ IsLiteral(p[2])
       \/ /\ Len(p) >= 4 /\ p[2] = LB /\ p[Len(p) - 1] = RB
          /\ \A k \in 3..(Len(p) - 2) : p[k].t = "int"

\* C2: parsing, compiling and executing `x: V x` returns V, for an integer, a
\* float, a string and a block literal V.
SetWordThenWordReturnsValue ==
    (ExecOfRoot /\ SetThenGet(source)) =>
        /\ err = NoError
        /\ result = LiteralValue(memory, source[2], 2)
        /\ result.kind = (IF source[2].t = "int" THEN Value_INT
                          ELSE IF source[2].t = "float" THEN Value_FLOAT
                          ELSE IF source[2].t = "string" THEN Value_STRING
                          ELSE Value_BLOCK)
        /\ stack = << >>

SetWordThenWordExecuted ==
    /\ ExecOfRoot /\ SetThenGet(source)
    /\ source[2].t = "int" /\ source[2].v < 0
    /\ result = ValueInt(source[2].v)

\* index of a native in the table Vm::new registers
NativeIndex(name) == CHOOSE i \in DOMAIN NATIVES : NATIVES[i].name = name

ConstCode(v) == << Code_CONST, Value_INT >> \o ToBytes4(v)

CallNativeCode(name) == << Code_CALL_NATIVE >> \o ToBytes2(NativeIndex(name) - 1)

InI32(a, b) == IF b >= 0 THEN a <= I32Max - b ELSE a >= I32Min - b

\* what a native computes from two operand values, left operand first
Apply(name, a, b) ==
    IF ~a.ok \/ ~b.ok \/ a.v.kind # Value_INT \/ b.v.kind # Value_INT
    THEN [ok |-> FALSE, v |-> ValueNone]
    ELSE IF name \in { "lt", "<" } THEN [ok |-> TRUE, v |-> ValueBool(a.v.data < b.v.data)]
    ELSE IF InI32(a.v.data, b.v.data) THEN [ok |-> TRUE, v |-> ValueInt(a.v.data + b.v.data)]
    ELSE [ok |-> FALSE, v |-> ValueNone]

RECURSIVE PrefixExpr(_, _)
\* postfix code, value and end of the prefix expression that starts at p[k]
PrefixExpr(p, k) ==
    IF p[k].t = "int"
    THEN [code |-> ConstCode(p[k].v), val |-> [ok |-> TRUE, v |-> ValueInt(p[k].v)], next |-> k + 1]
    ELSE LET a == PrefixExpr(p, k + 1)
             b == PrefixExpr(p, a.next)
         IN  [code |-> a.code \o b.code \o CallNativeCode(p[k].n),
              val |-> Apply(p[k].n, a.val, b.val),
              next |-> b.next]

RECURSIVE PrefixBlock(_, _, _, _)
\* the expressions of a block one after another; the block's value is the last
PrefixBlock(p, k, code, n) ==
    IF k > Len(p) THEN [code |-> code, n |-> n, val |-> [ok |-> FALSE, v |-> ValueNone]]
    ELSE LET e == PrefixExpr(p, k)
             rest == PrefixBlock(p, e.next, code \o e.code, n + 1)
         IN  IF e.next > Len(p) THEN [code |-> code \o e.code, n |-> n + 1, val |-> e.val]
             ELSE IF ~e.val.ok THEN [rest EXCEPT !.val = e.val]
             ELSE rest

PostfixCode(p) ==
    LET b == PrefixBlock(p, 1, << >>, 0)
    IN  b.code \o (IF b.n > 1 THEN << Code_LEAVE, b.n >> ELSE << >>) \o << Code_RET >>

\* compile of the parsed source block has returned
CompileOfRoot == Returned("compile") /\ c_block = root.data

\* C3: for nested prefix native calls that each get exactly `arity` operands,
\* compile returns postfix code (a call directly after its last operand, inner
\* calls first); while compiling, the innermost pending Defer is never passed
\* over, its stack_len target bp + arity is still ahead or just reached;
\* executing the
\* code gives the value of the expression (`add add 7 8 10` gives 25).
PrefixCallsCompileToPostfix ==
    source \in PrefixPrograms =>
        /\ (pc = "compile" /\ c_block = root.data) =>
               \/ defer_stack = << >>
               \/ stack_len <= defer_stack[Len(defer_stack)].bp
                                  + defer_stack[Len(defer_stack)].arity
        /\ CompileOfRoot =>
               /\ err = NoError
               /\ memory.heap[code_ret].items = PostfixCode(source)
        /\ ExecOfRoot =>
               LET val == PrefixBlock(source, 1, << >>, 0).val
               IN  IF val.ok THEN err = NoError /\ result = val.v /\ stack = << >>
                   ELSE err \in { "TypeMismatch", "IntegerOverflow" }

NestedPrefixExecuted ==
    /\ ExecOfRoot
    /\ source = << TWord("add"), TWord("add"), TInt(7), TInt(8), TInt(10) >>
    /\ result = ValueInt(25)
    /\ memory.heap[exec_info.code].items =
           ConstCode(7) \o ConstCode(8) \o << Code_CALL_NATIVE, 0, 0 >>
             \o ConstCode(10) \o << Code_CALL_NATIVE, 0, 0, Code_RET >>

\* the text `a OP b` with an operator native
InfixProgram(p) ==
    /\ Len(p) = 3
    /\ p[1].t = "int" /\ p[3].t = "int"
    /\ p[2] \in { TWord("+"), TWord("<") }

\* C4: `a OP b` with OP one of `+`, `<` compiles to CONST a, CONST b,
\* CALL_NATIVE OP, RET, and exec returns OP(a, b) with a the left operand
\* (for `+`, IntegerOverflow when a + b leaves the i32 range).
InfixOperatorIsPostfix ==
    InfixProgram(source) =>
        LET a == source[1].v
            b == source[3].v
            val == Apply(source[2].n, [ok |-> TRUE, v |-> ValueInt(a)],
                         [ok |-> TRUE, v |-> ValueInt(b)])
        IN  /\ CompileOfRoot =>
                   /\ err = NoError
                   /\ memory.heap[code_ret].items =
                          ConstCode(a) \o ConstCode(b) \o CallNativeCode(source[2].n)
                            \o << Code_RET >>
            /\ ExecOfRoot =>
                   IF val.ok THEN err = NoError /\ result = val.v
                   ELSE err = "IntegerOverflow"

InfixOperatorExecuted ==
    /\ ExecOfRoot
    /\ source = << TInt(1), TWord("<"), TInt(0) >>
    /\ result = ValueBool(FALSE)

RECURSIVE FlatValue(_, _, _)
\* value of a block of integers and `+` applications, read left to right
FlatValue(t, k, acc) ==
    IF k > Len(t) THEN acc
    ELSE IF t[k].t = "int" THEN FlatValue(t, k + 1, t[k].v)
    ELSE FlatValue(t, k + 2, acc + t[k + 1].v)

\* the blocks either has called
Called == { log[i].block : i \in { j \in DOMAIN log : log[j].op = "call" } }

\* C5: `either c [A] [B]` with c the BOOL of `a < b` calls block A and only
\* block A when c is true, block B and only block B when c is false, and exec
\* returns the value of the called block.
EitherRunsOneBlock ==
    \A c \in { << 5, 10 >>, << 15, 1 >> } : \A t \in EitherBlocks : \A f \in EitherBlocks :
        (ExecOfRoot /\ source = EitherProgram(c[1], c[2], t, f)) =>
            LET items == memory.heap[root.data].items
                chosen == IF c[1] < c[2] THEN items[5] ELSE items[6]
                tokens == IF c[1] < c[2] THEN t ELSE f
            IN  /\ err = NoError
                /\ Called = { chosen.data }
                /\ result = ValueInt(FlatValue(tokens, 1, 0))
                /\ stack = << >>

EitherFalseBranchExecuted ==
    /\ ExecOfRoot
    /\ source = EitherProgram(15, 1, << TInt(42) >>, << TInt(22), TInt(7), TWord("+"), TInt(8) >>)
    /\ result = ValueInt(15)
    /\ Called = { memory.heap[root.data].items[6].data }

CompileEntries == { j \in DOMAIN log : log[j].op = "compile" }

GetBindingEntries == { j \in DOMAIN log : log[j].op = "get_binding" }

GetBindingHit ==
    /\ Len(log') > Len(log)
    /\ log'[Len(log) + 1].op = "get_binding"

\* C7: over any sequence of get_binding calls a block is compiled by
\* get_binding at most once; the address it returned is the one in the block's
\* bindings field and the one every later get_binding returns, and such a later
\* call changes nothing in memory (no compile, no allocation).
GetBindingCompilesOnce ==
    /\ [](/\ \A i \in GetBindingEntries : \A j \in GetBindingEntries :
                 log[i].block = log[j].block => log[i].addr = log[j].addr
          /\ \A i \in GetBindingEntries :
                 memory.heap[log[i].block].bindings = log[i].addr
          /\ \A i \in CompileEntries : \A j \in CompileEntries :
                 (log[i].by = "get_binding" /\ log[j].by = "get_binding"
                    /\ log[i].block = log[j].block) => i = j)
    /\ [][GetBindingHit => memory' = memory]_vars

GetBindingCalledTwice ==
    \E i \in GetBindingEntries : \E j \in GetBindingEntries :
        /\ i < j
        /\ log[i].block = log[j].block /\ log[i].addr = log[j].addr
        /\ log[i].by = "driver" /\ log[j].by = "driver"
        /\ Cardinality({ k \in CompileEntries : log[k].block = log[i].block }) = 1

\* positions of the plain words of a block that have no binding
Unbound(block) ==
    { k \in DOMAIN memory.heap[block].items :
        /\ memory.heap[block].items[k].kind = Value_WORD
        /\ GetWord(memory, memory.heap[block].items[k].data).err # NoError }

FirstUnbound(block) == CHOOSE k \in Unbound(block) : \A j \in Unbound(block) : k <= j

\* a compile call of the driver has returned or has panicked
CompileEnded == c_ret = "compile" /\ (Returned("compile") \/ pc = "panic")

\* C8 as stated: compile of a block that holds a plain word without binding
\* fails with WordNotFound.
UnboundWordFailsWordNotFound ==
    (CompileEnded /\ Unbound(c_block) # {}) => (pc = "ready" /\ err = "WordNotFound")

\* C8 amended: compile of a block that holds a plain word without binding
\* never returns bytecode and allocates no code Series.  It fails with
\* WordNotFound at the first such word when it gets there; before that it can
\* fail with StackOverflow, when the items in front of the word fill the
\* 1024-byte code buffer or the 64-entry defer stack, and a debug build can
\* panic, when a Defer that fires in front of the word takes stack_len below 0.
UnboundWordReturnsNoBytecode ==
    (CompileEnded /\ Unbound(c_block) # {}) =>
        /\ \/ pc = "ready" /\ err = "WordNotFound" /\ c_pos = FirstUnbound(c_block)
           \/ /\ pc = "ready" /\ err = "StackOverflow"
              /\ ovf.stack \in { "code", "defer" }
              /\ c_pos <= FirstUnbound(c_block)
           \/ /\ pc = "panic"
              /\ c_pos <= FirstUnbound(c_block)
              /\ stack_len < defer_stack[Len(defer_stack)].consume
        /\ \A a \in DOMAIN memory.heap :
               memory.heap[a].tag = "code" => \E i \in CompileEntries : log[i].addr = a

UnboundWordReached ==
    /\ CompileEnded /\ Unbound(c_block) # {}
    /\ err = "WordNotFound"
    /\ c_pos = 2 /\ FirstUnbound(c_block) = 2

\* the texts `a + b` and `add a b`
AddProgram(p) ==
    /\ Len(p) = 3
    /\ \/ p[2] = TWord("+") /\ p[1].t = "int" /\ p[3].t = "int"
       \/ p[1] = TWord("add") /\ p[2].t = "int" /\ p[3].t = "int"

\* C9: `add` and `+` return INT(a + b) when the sum is an i32 and fail with
\* IntegerOverflow when it is not, at both ends of the range; no wrapped value
\* is returned.
AddIsChecked ==
    (ExecOfRoot /\ AddProgram(source)) =>
        LET a == IF source[1].t = "int" THEN source[1].v ELSE source[2].v
            b == source[3].v
        IN  IF InI32(a, b) THEN err = NoError /\ result = ValueInt(a + b)
            ELSE err = "IntegerOverflow"

AddOverflowed ==
    /\ ExecOfRoot
    /\ source = << TWord("add"), TInt(I32Min), TInt(-1) >>
    /\ err = "IntegerOverflow"

\* C10: the operand stack and the call stack hold at most 64 entries, the
\* defer stack at most 64, the bytecode buffer at most 1024 bytes; a push or
\* extend that does not fit returns StackOverflow and leaves the stack it was
\* applied to with the length and the contents it had.
StacksStayWithinCapacity ==
    /\ Len(stack) <= StackCap
    /\ Len(call_stack) <= CallStackCap
    /\ Len(defer_stack) <= DeferCap
    /\ Len(code_stack) <= ByteCodeCap
    /\ ovf.stack # "none" => ovf.before = ovf.after
    /\ (pc = "ready" /\ err = "StackOverflow") =>
           /\ ovf.stack \in { "stack", "call", "defer", "code" }
           /\ ovf.stack = "stack" => stack = ovf.before /\ Len(stack) = StackCap
           /\ ovf.stack = "call" => call_stack = ovf.before /\ Len(call_stack) = CallStackCap
           /\ ovf.stack = "defer" => defer_stack = ovf.before /\ Len(defer_stack) = DeferCap
           /\ ovf.stack = "code" => code_stack = ovf.before /\ Len(code_stack) > ByteCodeCap - 4

OperandStackOverflowed ==
    /\ Returned("exec")
    /\ err = "StackOverflow"
    /\ ovf.stack = "stack"
    /\ Len(stack) = StackCap
    /\ source = Ints(StackCap + 1)

\* the address that follows a CALL_NATIVE of `either`
FollowsEitherCall(a) == a >= 3 /\ ReadBytes(memory, a - 3, 3) = CallNativeCode("either")

\* the address that follows a CALL_FUNC instruction
FollowsCallFunc(a) == a >= 5 /\ ByteAt(memory, a - 5) = Code_CALL_FUNC

\* on a new Process the call stack of run holds the halt sentinel 0 of exec and
\* above it only addresses that follow a call of either or a CALL_FUNC
ReturnAddresses ==
    (pc = "run" /\ exec_info.fresh) =>
        /\ call_stack # << >> => call_stack[1] = 0
        /\ \A k \in 2..Len(call_stack) :
               FollowsEitherCall(call_stack[k]) \/ FollowsCallFunc(call_stack[k])

\* a RET step pops the call stack into ip and leaves the loop iff it popped 0
RetResumes ==
    (pc = "run" /\ Opcode = Code_RET /\ call_stack # << >>) =>
        LET top == call_stack[Len(call_stack)]
        IN  /\ ip' = top
            /\ call_stack' = SubSeq(call_stack, 1, Len(call_stack) - 1)
            /\ (pc' = "run") <=> (top # 0)
            /\ top # 0 => stack' = stack /\ UNCHANGED err

\* CALL_FUNC and the call of either push the address of the next instruction
CallPushesNext ==
    /\ (pc = "run" /\ Opcode = Code_CALL_FUNC /\ pc' = "run") =>
           /\ call_stack' = Append(call_stack, ip + 5)
           /\ ip' = memory.heap[FromBytes4(Operands)].items[2] + BlockSize
    /\ (Len(log') > Len(log) /\ log'[Len(log')].op = "call" /\ pc' = "run") =>
           /\ Len(call_stack') = Len(call_stack) + 1
           /\ SubSeq(call_stack', 1, Len(call_stack)) = call_stack
           /\ FollowsEitherCall(call_stack'[Len(call_stack')])
           /\ ip' = log'[Len(log')].addr + BlockSize

\* run returns Ok only from a RET that popped 0
HaltOnlyAtSentinel ==
    (pc = "run" /\ pc' = "ready" /\ err' = NoError) =>
        /\ Opcode = Code_RET
        /\ call_stack # << >> /\ call_stack[Len(call_stack)] = 0

\* C11: in run, RET pops the call stack into ip.  The call of either and
\* CALL_FUNC push the address of the instruction after the call, so the RET of
\* the called block resumes there with the operand stack as the block left it;
\* run returns only from the RET that pops the 0 exec pushed.
RetPopsCallStack ==
    /\ []ReturnAddresses
    /\ [][RetResumes /\ CallPushesNext /\ HaltOnlyAtSentinel]_vars

\* the RET of a function body has resumed after the CALL_FUNC of a block that
\* either called
ResumedAfterCallFunc ==
    /\ pc = "run" /\ exec_info.fresh
    /\ Len(call_stack) = 2 /\ call_stack[1] = 0
    /\ FollowsEitherCall(call_stack[2])
    /\ FollowsCallFunc(ip)
    /\ Opcode = Code_RET

RECURSIVE Instructions(_, _)
\* the instructions of a bytecode Series from offset k on: opcode and offset
Instructions(code, k) ==
    IF k > Len(code) THEN << >>
    ELSE << [op |-> code[k], at |-> k] >> \o Instructions(code, k + 1 + OperandLen(code[k]))

\* a step in which Process::compile returns Ok
CompileReturns ==
    /\ Len(log') > Len(log)
    /\ log'[Len(log) + 1].op = "compile"

\* the last instruction of the code is RET and the one before it is the stack
\* fix for a simulated stack of sl values
EndsWithStackFix(code, sl) ==
    LET is == Instructions(code, 1)
        n == Len(is)
        fix == IF n >= 2 THEN is[n - 1].op ELSE Code_RET
    IN  /\ n >= 1
        /\ is[n].op = Code_RET /\ is[n].at = Len(code)
        /\ (fix = Code_NONE) <=> (sl = 0)
        /\ (fix = Code_LEAVE) <=> (sl > 1)
        /\ fix = Code_LEAVE => code[is[n - 1].at + 1] = sl
        /\ \A k \in 1..(n - 2) : is[k].op \notin { Code_NONE, Code_LEAVE, Code_RET }

LeaveStep == pc = "run" /\ Opcode = Code_LEAVE /\ Tracked(Operands) /\ InMemory(Operands)

\* C13: LEAVE n with 1 <= n <= len writes the top element at index len - n and
\* sets the length to len - n + 1: of the n topmost values the last one pushed
\* remains, everything below is unchanged, and run goes on with the next
\* instruction.  With n = 0 or n > len run fails with StackUnderflow and the
\* stack is as it was.
LeaveKeepsTop ==
    [][LeaveStep =>
          LET n == Operands[1]
              len == Len(stack)
          IN  IF 1 <= n /\ n <= len
              THEN /\ Len(stack') = len - n + 1
                   /\ stack'[len - n + 1] = stack[len]
                   /\ \A k \in 1..(len - n) : stack'[k] = stack[k]
                   /\ pc' = "run" /\ ip' = ip + 2
                   /\ UNCHANGED << err, call_stack, memory >>
              ELSE /\ pc' = "ready" /\ last' = "exec"
                   /\ err' = "StackUnderflow"
                   /\ stack' = stack]_vars

\* LEAVE 3 of `1 2 3` has left the 3 alone on the stack
LeaveExecuted ==
    /\ pc = "run" /\ exec_info.fresh
    /\ source = << TInt(1), TInt(2), TInt(3) >>
    /\ ip >= 2 /\ ReadBytes(memory, ip - 2, 2) = << Code_LEAVE, 3 >>
    /\ Opcode = Code_RET
    /\ stack = << ValueInt(3) >>

\* run is about to execute a SET_WORD on a binding cell
SetWordStep ==
    /\ pc = "run" /\ Opcode = Code_SET_WORD
    /\ Tracked(Operands) /\ InMemory(Operands)
    /\ IsCell(memory, FromBytes4(Operands))

\* the text `w1: ... wk: V`, alone or followed by one word
MultiSet(p) ==
    \E k \in 1..Len(p) :
        /\ \A j \in 1..k : p[j].t = "setword"
        /\ Len(p) > k /\ IsLiteral(p[k + 1])
        /\ \/ Len(p) = k + 1
           \/ Len(p) = k + 2 /\ p[k + 2].t = "word" /\ \E j \in 1..k : p[j].n = p[k + 2].n

\* C14: SET_WORD copies the top of the operand stack into the binding cell and
\* leaves the operand stack, every other cell and the heap as they are; after
\* exec of k consecutive set-words and one value V every one of the k words is
\* bound to V and V is the result.
SetWordKeepsStack ==
    /\ []((ExecOfRoot /\ MultiSet(source)) =>
             LET items == memory.heap[root.data].items
                 k == CHOOSE j \in 1..(Len(source) - 1) : IsLiteral(source[j + 1])
                 V == LiteralValue(memory, source[k + 1], k + 1)
             IN  /\ err = NoError
                 /\ result = V
                 /\ stack = << >>
                 /\ \A j \in 1..k :
                        /\ items[j].kind = Value_SET_WORD
                        /\ GetWord(memory, items[j].data) = [err |-> NoError, v |-> V])
    /\ [][(SetWordStep /\ stack # << >>) =>
             /\ stack' = stack
             /\ GetCell(memory', FromBytes4(Operands)).v = stack[Len(stack)]
             /\ \A c \in DOMAIN memory.words :
                    CellAddress(c) # FromBytes4(Operands)
                        => memory'.words[c] = memory.words[c]
             /\ memory'.heap = memory.heap
             /\ pc' = "run" /\ ip' = ip + 5
             /\ UNCHANGED << err, call_stack >>]_vars

\* `x: y: z: 42` has run: the three words hold 42 and 42 is the result
ThreeWordsSet ==
    /\ ExecOfRoot
    /\ source = SetNames(3) \o << TInt(42) >>
    /\ result = ValueInt(42)
    /\ \A j \in 1..3 :
           GetWord(memory, memory.heap[root.data].items[j].data).v = ValueInt(42)
    /\ Cardinality({ memory.heap[root.data].items[j].data : j \in 1..3 }) = 3

\* the Func descriptors in memory
Funcs == { f \in DOMAIN memory.heap : memory.heap[f].tag = "func" }

\* C15 as stated: the body of every Func descriptor is the address of a
\* bytecode Series that compile returned, so a CALL_FUNC jumps only into
\* compiled bytecode.
FuncBodyIsBytecode ==
    \A f \in Funcs :
        /\ HasTag(memory, memory.heap[f].items[2], "code")
        /\ \E i \in CompileEntries : log[i].addr = memory.heap[f].items[2]

\* the NativeFunc descriptors Vm::new has registered: <<id, arity, consume>>
RegisteredNatives ==
    { memory.heap[a].items : a \in { b \in DOMAIN memory.heap : memory.heap[b].tag = "native" } }

\* the natives declared with NativeDescriptor::new_op (stdlib.rs 56, 58)
OperatorNames == { "+", "<" }

BothParsed == ppc = "returned" /\ entry = "parse_block"

\* C17: when parse(s) succeeds, parse_block(s) succeeds and its events are
\* begin_block, the events of parse(s), end_block; when parse(s) fails,
\* parse_block(s) fails with the same error, and its events are begin_block
\* and the events parse(s) emitted before it failed, without an end_block to
\* close the block.
ParseBlockBracketsParse ==
    BothParsed =>
        IF parsed.result = POk
        THEN /\ presult = POk
             /\ parser.collector = << BeginBlock >> \o parsed.collector \o << EndBlock >>
        ELSE /\ presult = parsed.result
             /\ parser.collector = << BeginBlock >> \o parsed.collector

\* parse_block of `word 123 "string"` has returned its five events
ParseBlockReturned ==
    /\ BothParsed /\ presult = POk
    /\ Len(parsed.collector) = 3
    /\ parser.collector =
           << BeginBlock, Event("word", "Word", << "w", "o", "r", "d" >>, 0),
              Event("integer", "", << >>, 123),
              Event("string", "", << "s", "t", "r", "i", "n", "g" >>, 0), EndBlock >>

\* Parser::parse has returned
ParseDone == ppc = "returned" /\ entry = "parse"

PathChars == Letters \cup { "/" }

\* the length of the longest prefix of a text made of letters and `/`
PathLen(t) ==
    CHOOSE n \in 0..Len(t) :
        /\ \A i \in 1..n : t[i] \in PathChars
        /\ n = Len(t) \/ t[n + 1] \notin PathChars

\* the text starts with two or more words of letters separated by `/`, and a
\* terminator other than `/` (whitespace, `]`, the end of the text) follows
StartsWithPath(t) ==
    LET n == PathLen(t)
    IN  /\ n >= 3
        /\ \E i \in 1..n : t[i] = "/"
        /\ t[1] # "/" /\ t[n] # "/"
        /\ \A i \in 1..(n - 1) : ~(t[i] = "/" /\ t[i + 1] = "/")
        /\ n = Len(t) \/ t[n + 1] \in Whitespace \cup { "]" }

RECURSIVE SegmentWords(_, _, _)
\* the word events of the segments of t[s..n], in order
SegmentWords(t, n, s) ==
    IF s > n THEN << >>
    ELSE LET e == CHOOSE j \in s..n :
                      /\ \A i \in s..j : t[i] # "/"
                      /\ j = n \/ t[j + 1] = "/"
         IN  << Event("word", "Word", SubSeq(t, s, e), 0) >> \o SegmentWords(t, n, e + 2)

\* the events of a path at the start of a text, its terminator's included
PathEvents(t) ==
    LET n == PathLen(t)
    IN  << BeginPath >> \o SegmentWords(t, n, 1) \o << EndPath >>
          \o (IF n < Len(t) /\ t[n + 1] = "]" THEN << EndBlock >> ELSE << >>)

\* the events a step of do_parse has delivered
Delivered == SubSeq(parser'.collector, Len(parser.collector) + 1, Len(parser'.collector))

PathMarks == { BeginPath, EndPath }

\* C18: for two or more words separated by `/` the events are begin_path, one
\* word per segment, end_path, and end_path comes before the terminator's own
\* event (end_block for `]`).  In every step of the parser: a path opens with
\* begin_path directly followed by the word of its first segment; inside a
\* path a word that `/` follows adds its word event and nothing else; a token
\* that something other than `/` follows closes the path with end_path after
\* the token's event and before the end_block of a `]`.
PathEventsInOrder ==
    /\ []((ParseDone /\ StartsWithPath(parser.input)) =>
             /\ Len(parser.collector) >= Len(PathEvents(parser.input))
             /\ SubSeq(parser.collector, 1, Len(PathEvents(parser.input)))
                    = PathEvents(parser.input))
    /\ [][(ppc = "do_parse" /\ ppc' = "do_parse") =>
             /\ (~parser.in_path /\ parser'.in_path) =>
                    /\ Len(Delivered) = 2
                    /\ Delivered[1] = BeginPath /\ Delivered[2].e = "word"
             /\ (parser.in_path /\ parser'.in_path) =>
                    Len(Delivered) = 1 /\ Delivered[1].e = "word"
             /\ (parser.in_path /\ ~parser'.in_path) =>
                    \E k \in DOMAIN Delivered :
                        /\ Delivered[k] = EndPath
                        /\ k <= 2
                        /\ k = 2 => Delivered[1] \notin PathMarks \cup { EndBlock }
                        /\ SubSeq(Delivered, k + 1, Len(Delivered)) \in { << >>, << EndBlock >> }
             /\ (~parser.in_path /\ ~parser'.in_path) =>
                    \A k \in DOMAIN Delivered : Delivered[k] \notin PathMarks]_vars

\* parse of `[word/path/item word/item]` has returned the events of two paths
TwoPathsParsed ==
    /\ ParseDone /\ presult = POk
    /\ Len(parser.collector) = 11
    /\ [i \in 1..11 |-> parser.collector[i].e] =
           << "begin_block", "begin_path", "word", "word", "word", "end_path",
              "begin_path", "word", "word", "end_path", "end_block" >>
    /\ parser.collector[5].s = << "i", "t", "e", "m" >>

\* the whole text is an optional sign followed by decimal digits
IsIntegerLiteral(t) ==
    /\ Len(t) >= 1
    /\ LET signed == t[1] \in { "+", "-" }
       IN  /\ Len(t) >= (IF signed THEN 2 ELSE 1)
           /\ \A i \in (IF signed THEN 2 ELSE 1)..Len(t) : t[i] \in DigitChars

\* the digits of an integer literal, without the sign and the leading zeros
Magnitude(t) ==
    LET d == IF t[1] \in { "+", "-" } THEN Tail(t) ELSE t
        nz == { i \in 1..Len(d) : d[i] # "0" }
    IN  IF nz = {} THEN << >>
        ELSE SubSeq(d, CHOOSE i \in nz : \A j \in nz : i <= j, Len(d))

\* a <= b for two digit strings of the same length
DigitsLeq(a, b) ==
    \/ a = b
    \/ \E i \in 1..Len(a) :
           /\ \A j \in 1..(i - 1) : a[j] = b[j]
           /\ ToDigit(a[i]) < ToDigit(b[i])

I32MaxDigits == << "2", "1", "4", "7", "4", "8", "3", "6", "4", "7" >>
I32MinDigits == << "2", "1", "4", "7", "4", "8", "3", "6", "4", "8" >>

\* the value of the literal lies in [-2^31, 2^31 - 1], decided on its digits
InI32Range(t) ==
    LET m == Magnitude(t)
    IN  \/ Len(m) < 10
        \/ /\ Len(m) = 10
           /\ DigitsLeq(m, IF t[1] = "-" THEN I32MinDigits ELSE I32MaxDigits)

RECURSIVE SignedValue(_, _, _)
\* the value of the digits on the literal's side of zero
SignedValue(m, negative, v) ==
    IF m = << >> THEN v
    ELSE SignedValue(Tail(m), negative,
                     IF negative THEN v * 10 - ToDigit(Head(m)) ELSE v * 10 + ToDigit(Head(m)))

DecimalValue(t) == SignedValue(Magnitude(t), t[1] = "-", 0)

\* C19: an integer literal is emitted as integer(v) exactly when its value v
\* lies in [-2^31, 2^31 - 1] and is rejected with IntegerOverflow exactly when
\* its value lies outside that range.
IntegerIffInI32Range ==
    (ParseDone /\ IsIntegerLiteral(parser.input)) =>
        IF InI32Range(parser.input)
        THEN /\ presult = POk
             /\ parser.collector =
                    << Event("integer", "", << >>, DecimalValue(parser.input)) >>
        ELSE /\ presult = PResult("IntegerOverflow", "")
             /\ parser.collector = << >>

\* every integer literal other than -2147483648 is
\* emitted with its value when the value is an i32 and rejected with
\* IntegerOverflow when it is not.
IntegerIffInI32RangeButMin ==
    (/\ ParseDone /\ IsIntegerLiteral(parser.input)
     /\ ~(parser.input[1] = "-" /\ Magnitude(parser.input) = I32MinDigits)) =>
        IF InI32Range(parser.input)
        THEN /\ presult = POk
             /\ parser.collector =
                    << Event("integer", "", << >>, DecimalValue(parser.input)) >>
        ELSE /\ presult = PResult("IntegerOverflow", "")
             /\ parser.collector = << >>

\* parse of -2147483648, a literal with an i32 value, has returned IntegerOverflow
MinIntegerRejected ==
    /\ ParseDone
    /\ parser.input = << "-" >> \o I32MinDigits
    /\ presult = PResult("IntegerOverflow", "")
    /\ parser.collector = << >>

\* the whole text is one word token: it starts with a letter or a colon, is
\* made of word characters, and has colons at its two ends only
IsWordToken(t) ==
    /\ Len(t) >= 1
    /\ t[1] \in Letters \cup { ":" }
    /\ \A i \in 1..Len(t) : t[i] \in WordChars \cup { ":" }
    /\ \A i \in 2..(Len(t) - 1) : t[i] # ":"

\* the kind the colons of a token stand for
KindOfToken(t) ==
    IF t[1] = ":" THEN "GetWord"
    ELSE IF t[Len(t)] = ":" THEN "SetWord"
    ELSE "Word"

\* the token without its colons
NameOfToken(t) ==
    SubSeq(t, IF t[1] = ":" THEN 2 ELSE 1,
              IF Len(t) >= 2 /\ t[Len(t)] = ":" THEN Len(t) - 1 ELSE Len(t))

\* C20: every word token is emitted with exactly one kind determined by its
\* colons: GetWord iff the token begins with `:`, SetWord iff it does not
\* begin with `:` and ends with `:`, Word otherwise; the emitted name never
\* contains the colon.
WordKindFollowsColons ==
    /\ \A k \in DOMAIN parser.collector :
           parser.collector[k].e = "word" =>
               \A i \in DOMAIN parser.collector[k].s : parser.collector[k].s[i] # ":"
    /\ (ParseDone /\ presult = POk /\ IsWordToken(parser.input)) =>
           parser.collector =
               << Event("word", KindOfToken(parser.input), NameOfToken(parser.input), 0) >>

\* every word token that does not both begin and end with a colon is emitted
\* with the kind of its colons
WordKindFollowsOneColon ==
    (/\ ParseDone /\ presult = POk /\ IsWordToken(parser.input)
     /\ ~(parser.input[1] = ":" /\ parser.input[Len(parser.input)] = ":")) =>
        parser.collector =
            << Event("word", KindOfToken(parser.input), NameOfToken(parser.input), 0) >>

\* parse of `:x:`, a token that begins with a colon, has emitted a SetWord
GetWordEmittedAsSetWord ==
    /\ ParseDone /\ presult = POk
    /\ parser.input = << ":", "x", ":" >>
    /\ parser.collector = << Event("word", "SetWord", << "x" >>, 0) >>

RECURSIVE Depths(_, _)
\* the bracket depth after each token of a program, starting from depth d
Depths(src, d) ==
    IF src = << >> THEN << >>
    ELSE LET n == IF Head(src) = LB THEN d + 1
                  ELSE IF Head(src) = RB THEN d - 1 ELSE d
         IN  << n >> \o Depths(Tail(src), n)

\* every `]` closes an open `[` and no `[` is left open
WellBracketed(src) ==
    LET ds == Depths(src, 0)
    IN  /\ \A i \in DOMAIN ds : ds[i] >= 0
        /\ src # << >> => ds[Len(src)] = 0

\* Vm::parse_block returns Ok
ParseBlockSucceeds == pc = "parse" /\ pc' = "ready"

\* C21: after every successful Vm::parse_block, for any input, exactly one
\* Value remained on the collector's value stack, the root BLOCK that the
\* call popped and returned, and the position stack is empty.
ParseLeavesOnlyRoot ==
    [][ParseBlockSucceeds =>
           /\ cstack' = << >>
           /\ pos_stack' = << >>
           /\ root'.kind = Value_BLOCK]_vars

\* for well-bracketed programs the root alone remained and no position is left
WellBracketedLeavesOnlyRoot ==
    [][(ParseBlockSucceeds /\ WellBracketed(source)) =>
           /\ cstack' = << >>
           /\ pos_stack' = << >>
           /\ root'.kind = Value_BLOCK]_vars

\* Vm::parse_block of `[` has returned Ok with a position left on pos_stack
OpenBlockParsed ==
    /\ source = << LB >>
    /\ pc = "ready" /\ calls = 0
    /\ pos_stack = << 0 >>
    /\ cstack = << >>

\* Vm::parse_block of `] [` has returned Ok with two values on the stack
TwoRootsParsed ==
    /\ source = << RB, LB >>
    /\ pc = "ready" /\ calls = 0
    /\ Len(cstack) = 1
    /\ pos_stack = << >>

\* a value of the block tree: its kind, its name or text, its number, its items
Node(kind, n, v, items) == [kind |-> kind, n |-> n, v |-> v, items |-> items]

\* the name interned at a symbol address
SymbolName(m, addr) == CHOOSE name \in DOMAIN m.symbols : m.symbols[name] = addr

RECURSIVE Decode(_, _)
\* the tree a Value stands for in a memory
Decode(m, value) ==
    IF value.kind \in { Value_BLOCK, Value_PATH }
    THEN LET items == m.heap[value.data].items
         IN  Node(value.kind, "", 0, [i \in 1..Len(items) |-> Decode(m, items[i])])
    ELSE IF value.kind \in { Value_WORD, Value_SET_WORD, Value_GET_WORD }
    THEN Node(value.kind, SymbolName(m, value.data), 0, << >>)
    ELSE IF value.kind = Value_STRING
    THEN Node(value.kind, m.heap[value.data].items[1], 0, << >>)
    ELSE Node(value.kind, "", value.data, << >>)

\* the tree of a token that is a value
NodeOf(tok) ==
    IF tok.t = "int" THEN Node(Value_INT, "", tok.v, << >>)
    ELSE IF tok.t = "float" THEN Node(Value_FLOAT, "", tok.v, << >>)
    ELSE IF tok.t = "string" THEN Node(Value_STRING, tok.n, 0, << >>)
    ELSE Node(WordKindOf(tok.t), tok.n, 0, << >>)

Begins == { LB, BP }

Ends == { RB, EP }

EndOf(tok) == IF tok = LB THEN RB ELSE EP

BeginOf(tok) == IF tok = RB THEN LB ELSE BP

GroupKind(tok) == IF tok \in { LB, RB } THEN Value_BLOCK ELSE Value_PATH

\* how many of src[lo..hi] are the token tok
Count(src, lo, hi, tok) == Cardinality({ k \in lo..hi : src[k] = tok })

\* the end event of the group that begins at src[lo], 0 if src[lo..hi] has none
MatchingEnd(src, lo, hi) ==
    LET js == { j \in (lo + 1)..hi :
                  /\ src[j] = EndOf(src[lo])
                  /\ Count(src, lo + 1, j - 1, src[lo]) = Count(src, lo + 1, j - 1, src[j]) }
    IN  IF js = {} THEN 0 ELSE CHOOSE j \in js : \A k \in js : j <= k

\* the begin event of the group that ends at src[hi], 0 if src[1..hi] has none
MatchingBegin(src, hi) ==
    LET is == { i \in 1..(hi - 1) :
                  /\ src[i] = BeginOf(src[hi])
                  /\ Count(src, i + 1, hi - 1, src[i]) = Count(src, i + 1, hi - 1, src[hi]) }
    IN  IF is = {} THEN 0 ELSE CHOOSE i \in is : \A k \in is : i >= k

RECURSIVE Forest(_, _, _)
\* the values of src[lo..hi] in source order, each group as one value
Forest(src, lo, hi) ==
    IF lo > hi THEN << >>
    ELSE IF src[lo] \in Begins
    THEN LET j == MatchingEnd(src, lo, hi)
         IN  IF j = 0 THEN Forest(src, lo + 1, hi)
             ELSE << Node(GroupKind(src[lo]), "", 0, Forest(src, lo + 1, j - 1)) >>
                    \o Forest(src, j + 1, hi)
    ELSE IF src[lo] \in Ends THEN Forest(src, lo + 1, hi)
    ELSE LET r == CHOOSE k \in lo..hi :
                      /\ \A x \in lo..k : src[x] \notin Begins \cup Ends
                      /\ k = hi \/ src[k + 1] \in Begins \cup Ends
         IN  [k \in 1..(r - lo + 1) |-> NodeOf(src[lo + k - 1])] \o Forest(src, r + 1, hi)

\* how many of src[lo..hi] are in the set toks
CountIn(src, lo, hi, toks) == Cardinality({ k \in lo..hi : src[k] \in toks })

\* every end event ends the group that was begun last, and no group is left open
ProperlyNested(src) ==
    /\ \A k \in 1..Len(src) : CountIn(src, 1, k, Begins) >= CountIn(src, 1, k, Ends)
    /\ CountIn(src, 1, Len(src), Begins) = CountIn(src, 1, Len(src), Ends)
    /\ \A j \in 1..Len(src) :
           src[j] \in Ends =>
               \E i \in 1..(j - 1) :
                   /\ src[i] = BeginOf(src[j])
                   /\ CountIn(src, i + 1, j - 1, Begins) = CountIn(src, i + 1, j - 1, Ends)
                   /\ \A k \in (i + 1)..(j - 1) :
                          CountIn(src, i + 1, k, Begins) >= CountIn(src, i + 1, k, Ends)

\* the collector has ended a group without an error
GroupEnded ==
    /\ pc = "parse" /\ pc' = "parse"
    /\ input # << >> /\ Head(input) \in Ends

\* the index in source of the event that is delivered next
EventIndex == Len(source) - Len(input) + 1

\* C22: for every well-bracketed input the value block mirrors the source
\* nesting: each `[ ... ]` group becomes a BLOCK value and each path a PATH
\* value whose Series holds, in source order, exactly the values pushed
\* between its begin and end events, and that single value takes the group's
\* place in the enclosing Series.
BlockMirrorsNesting ==
    [][/\ (GroupEnded /\ MatchingBegin(source, EventIndex) # 0 /\ WellBracketed(source)) =>
              Decode(memory', cstack'[Len(cstack')]) =
                  Node(GroupKind(Head(input)), "", 0,
                       Forest(source, MatchingBegin(source, EventIndex) + 1, EventIndex - 1))
       /\ (ParseBlockSucceeds /\ WellBracketed(source)) =>
              Decode(memory', root') =
                  Node(Value_BLOCK, "", 0, Forest(source, 1, Len(source)))]_vars

\* the same for the inputs whose end events each end the group begun last
NestedBlockMirrorsNesting ==
    [][/\ (GroupEnded /\ MatchingBegin(source, EventIndex) # 0 /\ ProperlyNested(source)) =>
              Decode(memory', cstack'[Len(cstack')]) =
                  Node(GroupKind(Head(input)), "", 0,
                       Forest(source, MatchingBegin(source, EventIndex) + 1, EventIndex - 1))
       /\ (ParseBlockSucceeds /\ ProperlyNested(source)) =>
              Decode(memory', root') =
                  Node(Value_BLOCK, "", 0, Forest(source, 1, Len(source)))]_vars

\* Vm::parse_block of `a/[b]` has returned a block that holds one block of
\* three values, the second an empty path
PathAroundBlockParsed ==
    /\ source = << BP, TWord("a"), LB, EP, TWord("b"), RB >>
    /\ pc = "ready" /\ calls = 0
    /\ Decode(memory, root) =
           Node(Value_BLOCK, "", 0,
                << Node(Value_BLOCK, "", 0,
                        << Node(Value_WORD, "a", 0, << >>),
                           Node(Value_PATH, "", 0, << >>),
                           Node(Value_WORD, "b", 0, << >>) >>) >>)

\* ---------------------------------------------------------------------------
\* C23: symbol interning
\* ---------------------------------------------------------------------------
\* a Memory operation was made
MemoryOp(op) == nops' = nops + 1 /\ lastRet'.op = op

SymbolHandles == { h \in DOMAIN handles : handles[h].kind = "symbol" }

\* the names interned so far
InternedNames == { handles[h].items : h \in SymbolHandles }

\* the used length of the heap, in bytes
HeapLen(m) == m[GetRegion(m, LAYOUT_HEAP) + 2]

\* the number of entries of the symbol table
SymbolCount(m) == m[GetRegion(m, LAYOUT_SYMBOL_TABLE) + 2]

\* the addresses returned for equal names are equal, those returned for
\* different names differ
AddressesFollowNames(hs) ==
    \A h1, h2 \in { h \in DOMAIN hs : hs[h].kind = "symbol" } :
        (hs[h1].items = hs[h2].items) <=> (hs[h1].addr = hs[h2].addr)

\* C23: across any sequence of get_or_insert_symbol calls, equal names get the
\* same address and different names get different addresses, and interning a
\* name again allocates nothing on the heap and adds no entry to the table.
InterningIsInjective ==
    [][ (MemoryOp("get_or_insert_symbol") /\ lastRet'.ok)
        => /\ AddressesFollowNames(handles')
           /\ handles'[Len(handles')].items \in InternedNames
              => /\ HeapLen(arena') = HeapLen(arena)
                 /\ SymbolCount(arena') = SymbolCount(arena) ]_vars

\* "b" was interned, then "c", which shares its slot, then "b" again
ReinternedAfterCollision ==
    /\ lastRet.op = "get_or_insert_symbol"
    /\ lastRet.ok
    /\ \E h1, h2, h3 \in SymbolHandles :
          /\ h1 < h2 /\ h2 < h3 /\ h3 = Len(handles)
          /\ handles[h1].items = << 98 >>
          /\ handles[h2].items = << 99 >>
          /\ handles[h3].items = << 98 >>
          /\ handles[h3].addr = handles[h1].addr
          /\ xxh32(<< 98 >>) % 2 = xxh32(<< 99 >>) % 2

\* ---------------------------------------------------------------------------
\* A driver of the binding table: set_word and get_word on the Vm's memory
\* ---------------------------------------------------------------------------
\* the symbol of the first native: it is bound when the Vm is created
NativeSymbol == VmNew.memory.symbols[NATIVES[1].name]

\* symbol addresses: the first three share a slot of the binding table
WordSymbols ==
    { NativeSymbol, NativeSymbol + TableEntries, NativeSymbol + 2 * TableEntries,
      NativeSymbol + 4 }

\* the Values the driver binds
WordValues == { ValueNone, ValueInt(1), ValueInt(2) }

WordsInit ==
    /\ source = << >>
    /\ CoreInit
    /\ parser = ParserNew(<< >>)
    /\ entry = "none"
    /\ ppc = "idle"
    /\ presult = [err |-> "none", char |-> ""]
    /\ parsed = NotParsed
    /\ ArenaIdle

WordsFrame ==
    UNCHANGED << natives, source, input, cstack, pos_stack, root, ip, stack, call_stack,
                 c_block, c_pos, stack_len, defer_stack, code_stack, c_ret,
                 pc, calls, last, result, code_ret, err, fresh, exec_info, log, ovf,
                 parserVars, arena, handles >>

\* Memory::set_word
DoSetWord(sym, v) ==
    /\ nops < MaxOps
    /\ LET r == SetWord(memory, sym, v)
       IN  /\ memory' = r.m
           /\ lastRet' = Ret("set_word", sym, r.err = NoError, v)
    /\ nops' = nops + 1
    /\ WordsFrame

\* Memory::get_word
DoGetWord(sym) ==
    /\ nops < MaxOps
    /\ LET r == GetWord(memory, sym)
       IN  lastRet' = Ret("get_word", sym, r.err = NoError, r.v)
    /\ nops' = nops + 1
    /\ UNCHANGED memory
    /\ WordsFrame

WordsNext ==
    \/ \E sym \in WordSymbols : \E v \in WordValues : DoSetWord(sym, v)
    \/ \E sym \in WordSymbols : DoGetWord(sym)

WordsSpec == WordsInit /\ [][WordsNext]_vars

\* ---------------------------------------------------------------------------
\* C24: get_word after set_word
\* ---------------------------------------------------------------------------
\* C24: after any sequence of set_word calls, get_word(sym) returns the Value
\* of the most recent set_word(sym, _): a set_word binds its symbol to its
\* Value and leaves the binding of every other symbol as it was, also for
\* symbols that share a slot of the binding table, and a get_word returns the
\* binding.
GetWordReturnsLastSet ==
    [][ /\ (MemoryOp("set_word") /\ lastRet'.ok)
           => /\ GetWord(memory', lastRet'.h) = [err |-> NoError, v |-> lastRet'.v]
              /\ \A sym \in WordSymbols \ { lastRet'.h } :
                    GetWord(memory', sym) = GetWord(memory, sym)
        /\ MemoryOp("get_word")
           => /\ memory' = memory
              /\ lastRet'.ok = (GetWord(memory, lastRet'.h).err = NoError)
              /\ lastRet'.ok => lastRet'.v = GetWord(memory, lastRet'.h).v ]_vars

\* two symbols of one slot are bound to different Values by set_word, and
\* get_word returned the Value of the first one
CollidingWordsRead ==
    /\ WordHash(NativeSymbol) = WordHash(NativeSymbol + TableEntries)
    /\ GetWord(memory, NativeSymbol + TableEntries).v = ValueInt(1)
    /\ lastRet.op = "get_word" /\ lastRet.ok /\ lastRet.h = NativeSymbol
    /\ lastRet.v = ValueInt(2)
    /\ nops >= 3

\* ---------------------------------------------------------------------------
\* C25: bindings are stable
\* ---------------------------------------------------------------------------
\* the bytecode Series of a memory
CodeObjects(m) == { a \in DOMAIN m.heap : m.heap[a].tag = "code" }

\* the bindings that the WORD and SET_WORD instructions of a bytecode carry
BindingOperands(code) ==
    LET is == Instructions(code, 1)
    IN  { FromBytes4(SubSeq(code, is[k].at + 1, is[k].at + 4)) :
            k \in { j \in DOMAIN is : is[j].op \in { Code_WORD, Code_SET_WORD } } }

\* the symbols that have a cell in the binding table
BoundSymbols(m) ==
    { m.symbols[name] : name \in { n \in DOMAIN m.symbols :
                                     BindWord(m, m.symbols[n], FALSE).err = NoError } }

\* C25: once bind_word has returned a cell address for a symbol, every later
\* bind_word for that symbol returns the same address, whatever was allocated,
\* bound, compiled or executed in between; hence every WORD and SET_WORD
\* instruction carries the address bind_word returns for its word.
BindingsAreStable ==
    [][ /\ \A sym \in BoundSymbols(memory) :
              /\ BindWord(memory', sym, FALSE).err = NoError
              /\ BindWord(memory', sym, FALSE).addr = BindWord(memory, sym, FALSE).addr
              /\ BindWord(memory', sym, TRUE).addr = BindWord(memory, sym, FALSE).addr
        /\ \A a \in CodeObjects(memory') :
              \A c \in BindingOperands(memory'.heap[a].items) :
                 /\ IsCell(memory', c)
                 /\ BindWord(memory', memory'.words[CellSlot(c)].sym, FALSE).addr = c ]_vars

\* `x: 5 x` is compiled: its SET_WORD and its WORD carry the cell of x
SetWordAndWordShareBinding ==
    /\ source = << TSet("x"), TInt(5), TWord("x") >>
    /\ "x" \in DOMAIN memory.symbols
    /\ \E a \in CodeObjects(memory) :
          LET code == memory.heap[a].items
              is == Instructions(code, 1)
              cell == ToBytes4(BindWord(memory, memory.symbols["x"], FALSE).addr)
          IN  /\ \E k \in DOMAIN is : /\ is[k].op = Code_WORD
                                       /\ SubSeq(code, is[k].at + 1, is[k].at + 4) = cell
              /\ \E k \in DOMAIN is : /\ is[k].op = Code_SET_WORD
                                       /\ SubSeq(code, is[k].at + 1, is[k].at + 4) = cell

\* ---------------------------------------------------------------------------
\* C26, C27: capacity
\* ---------------------------------------------------------------------------
\* the two words, cap and len, in front of the data of a stack or a region
CapHeaderBytes == 8

\* the cap field of the region at ca: words of data
CapWords(m, ca) == m[ca + 1]

\* the len field of the region at ca: bytes of data in use
LenBytes(m, ca) == m[ca + 2]

\* the size of the region at ca in bytes, its header included
CapBytes(m, ca) == CapHeaderBytes + CapWords(m, ca) * 4

\* the items of the stack or block of a handle, read with get
Contents(m, h) ==
    LET la == IF h.kind = "stack" THEN h.addr + 1 ELSE h.addr
    IN  [k \in 1..(m[la + 1] \div ItemSize(h.type)) |-> BlockGet(m, la, h.type, k - 1).v]

\* the regions Memory::init lays out
Regions == { GetRegion(arena, r) : r \in 0..(LAYOUT_REGIONS - 1) }

Full(h) ==
    Len(handles[h].items) * ItemSize(handles[h].type) = CapWords(arena, handles[h].addr) * 4

RoomFor(h) ==
    LenBytes(arena, handles[h].addr) + ItemSize(handles[h].type)
        <= CapWords(arena, handles[h].addr) * 4

\* C27: a push to a stack that has no room for one more item fails (None) and
\* leaves the length and the items of the stack unchanged; a push to a stack
\* that has room succeeds.
FullPushChangesNothing ==
    [][ MemoryOp("push")
        => LET h == lastRet'.h
           IN  /\ lastRet'.ok = RoomFor(h)
               /\ ~RoomFor(h)
                  => /\ LenBytes(arena', handles[h].addr) = LenBytes(arena, handles[h].addr)
                     /\ Contents(arena', handles[h]) = Contents(arena, handles[h])
                     /\ arena' = arena ]_vars

\* the parse base holds two words, its capacity, and a third push was refused
FullPushRefused ==
    /\ lastRet.op = "push" /\ ~lastRet.ok /\ lastRet.h = ParseBase
    /\ Full(ParseBase)
    /\ Contents(arena, handles[ParseBase]) = << 65537, 65537 >>

HeapHasRoom(n) ==
    ((HeapLen(arena) + 3) \div 4) * 4 + n + 4 <= CapWords(arena, Heap) * 4

\* the words a handle occupies: header and data
WordsOf(m, h) ==
    IF h.kind = "stack" THEN h.addr..(h.addr + 1 + CapWords(m, h.addr))
    ELSE h.addr..(h.addr + ((m[h.addr + 1] + 3) \div 4))

AlignedLen(m) == ((HeapLen(m) + 3) \div 4) * 4

\* the byte offset in the heap's data of the stack or block of a handle
HeapOffset(h) == (h.addr - (Heap + 2)) * 4

AllocBytes(op, h, v) ==
    IF op = "alloc_stack"
    THEN CapHeaderBytes + ((NewStack.cap_items * ItemSize(NewStack.type) + 3) \div 4) * 4
    ELSE IF op = "alloc_string" THEN 4 + Len(NewString)
    ELSE 4 + v * ItemSize(handles[h].type)

\* the allocation fits in what remains of the heap
Fits(bytes) == AlignedLen(arena) + bytes <= CapWords(arena, Heap) * 4

\* C31: an allocation on the heap (alloc_stack, alloc_string, the block of a
\* cut_block of items the stack has) whose header and payload do not fit in
\* what remains of the heap fails (None) and leaves the used length of the
\* heap and every word of the memory unchanged; one that fits succeeds.
FullHeapAllocChangesNothing ==
    [][ /\ (MemoryOp("alloc_stack") \/ MemoryOp("alloc_string"))
           => LET bytes == AllocBytes(lastRet'.op, 0, 0)
              IN  /\ lastRet'.ok = Fits(bytes)
                  /\ ~Fits(bytes) => /\ HeapLen(arena') = HeapLen(arena)
                                     /\ arena' = arena
                                     /\ handles' = handles
        /\ (MemoryOp("cut_block") /\ lastRet'.v <= Len(handles[lastRet'.h].items))
           => LET bytes == AllocBytes("cut_block", lastRet'.h, lastRet'.v)
              IN  /\ lastRet'.ok = Fits(bytes)
                  /\ ~Fits(bytes) => /\ HeapLen(arena') = HeapLen(arena)
                                     /\ arena' = arena
                                     /\ handles' = handles ]_vars

\* two stacks fill the heap and a third alloc_stack was refused
AllocRefusedOnFullHeap ==
    /\ lastRet.op = "alloc_stack" /\ ~lastRet.ok
    /\ HeapLen(arena) = CapWords(arena, Heap) * 4
    /\ Cardinality({ h \in StackHandles : HeapOffset(handles[h]) >= 0 /\ h > ParseBase }) = 2

\* ---------------------------------------------------------------------------
\* C32: a failed compilation
\* ---------------------------------------------------------------------------
\* a step in which Process::compile returns Err
CompileFails == pc = "compile" /\ pc' = "ready" /\ err' # NoError

\* a step in which get_binding returns the bindings field of the block
BindingReused ==
    /\ pc = "ready" /\ pc' = "ready"
    /\ Len(log') = Len(log) + 1
    /\ log'[Len(log')].op = "get_binding"

\* C32: a compilation that fails returns no bytecode Series: none is allocated
\* while it runs or when it fails, and inside get_binding (called by the
\* driver or by either) the bindings field of the block stays 0; get_binding
\* reuses a bindings field only when it is not 0, and then it is bytecode that
\* a successful compile of that block returned, so after a failure a later
\* get_binding compiles the block again.
FailedCompileLeavesNoCode ==
    [][ /\ pc = "compile" /\ pc' = "compile" => CodeObjects(memory') = CodeObjects(memory)
        /\ CompileFails
           => /\ CodeObjects(memory') = CodeObjects(memory)
              /\ log' = log
              /\ code_ret' = code_ret
              /\ c_ret \in { "get_binding", "either" } => memory'.heap[c_block].bindings = 0
        /\ BindingReused
           => LET e == log'[Len(log')]
              IN  /\ memory.heap[e.block].bindings # 0
                  /\ e.addr = memory.heap[e.block].bindings
                  /\ HasTag(memory, e.addr, "code")
                  /\ \E i \in CompileEntries : log[i].block = e.block /\ log[i].addr = e.addr ]_vars

\* get_binding failed, and a second get_binding, on a block whose bindings
\* field is 0, starts to compile
RecompilesAfterFailure ==
    /\ pc = "compile" /\ c_ret = "get_binding" /\ c_pos = 1
    /\ last = "get_binding" /\ err # NoError
    /\ calls = 2
    /\ memory.heap[c_block].bindings = 0

\* ---------------------------------------------------------------------------
\* C33: deferred calls at the end of the block
\* ---------------------------------------------------------------------------

\* C33: every Defer that compile pushed (set-word, native call, function call)
\* has its instruction in the returned bytecode or makes compile fail: when
\* compile returns bytecode, no Defer is left on the defer stack.
NoDeferPendingAtReturn ==
    [][CompileReturns => defer_stack' = << >>]_vars

\* ---------------------------------------------------------------------------
\* C34: the simulated stack_len and the operand stack of run
\* ---------------------------------------------------------------------------

\* the bytecode Series compile has returned that holds the instruction at a
CodeHolding(m, a) ==
    { o \in { log[j].addr : j \in CompileEntries } :
        o + BlockSize <= a /\ a < o + BlockSize + Len(m.heap[o].items) }

\* what compile adds to stack_len for the instruction at offset at of code:
\* one for a value, none for SET_WORD, 1 - consume for a call
StackLenDelta(m, code, at) ==
    LET op == code[at]
    IN  IF op \in { Code_CONST, Code_WORD, Code_NONE } THEN 1
        ELSE IF op = Code_CALL_NATIVE
        THEN 1 - NATIVES[FromBytes2(SubSeq(code, at + 1, at + 2)) + 1].consume
        ELSE IF op = Code_CALL_FUNC
        THEN 1 - m.heap[FromBytes4(SubSeq(code, at + 1, at + 4))].items[1]
        ELSE 0

\* the instructions of code before offset k
Prefix(code, k) ==
    LET is == Instructions(code, 1)
    IN  { i \in { is[n] : n \in DOMAIN is } : i.at < k }

\* stack_len of compile after it has emitted the instructions before offset k
SimulatedStackLen(m, code, k) ==
    LET n(d) == Cardinality({ i \in Prefix(code, k) : StackLenDelta(m, code, i.at) = d })
    IN  n(1) - n(-1) - 2 * n(-2) - 3 * n(-3)

\* the positions of the frames of run, outermost first: the return addresses on
\* the call stack above the halt sentinel, then ip
FramePositions == Tail(call_stack) \o << ip >>

\* every frame is at an instruction of bytecode compile returned, before the
\* stack fix of that bytecode
InCompiledCode(a) ==
    /\ CodeHolding(memory, a) # {}
    /\ LET o == CHOOSE c \in CodeHolding(memory, a) : TRUE
           code == memory.heap[o].items
           k == a - o - BlockSize + 1
       IN  /\ \E i \in Prefix(code, k + 1) : i.at = k
           /\ \A i \in Prefix(code, k) : i.op \notin { Code_LEAVE, Code_RET }

StackLenAt(a) ==
    LET o == CHOOSE c \in CodeHolding(memory, a) : TRUE
    IN  SimulatedStackLen(memory, memory.heap[o].items, a - o - BlockSize + 1)

RECURSIVE SumStackLen(_, _)
\* a frame that waits for a call to return holds its stack_len less the value
\* the call is going to push
SumStackLen(ps, j) ==
    IF j > Len(ps) THEN 0
    ELSE StackLenAt(ps[j]) - (IF j < Len(ps) THEN 1 ELSE 0) + SumStackLen(ps, j + 1)

\* C34: while run executes compiled bytecode on a new Process, the height of
\* the operand stack relative to the entry of each block is the stack_len
\* compile simulated for the instructions before ip: CONST, WORD and NONE add
\* one, SET_WORD none, CALL_NATIVE and CALL_FUNC remove consume and add one.
RunHeightIsStackLen ==
    ( /\ pc = "run" /\ exec_info.fresh
      /\ call_stack # << >> /\ call_stack[1] = 0
      /\ \A j \in DOMAIN FramePositions : InCompiledCode(FramePositions[j]) )
        => Len(stack) = SumStackLen(FramePositions, 1)

\* ---------------------------------------------------------------------------
\* C35: nesting of path events
\* ---------------------------------------------------------------------------

\* in a sequence of events, every begin_path is followed by an end_path with
\* no begin_path, begin_block or end_block between the two
PathsNested(events) ==
    \A i \in DOMAIN events :
        events[i] = BeginPath =>
            \E j \in (i + 1)..Len(events) :
                /\ events[j] = EndPath
                /\ \A k \in (i + 1)..(j - 1) :
                       events[k] \notin { BeginPath, BeginBlock, EndBlock }

\* C35: in the events of a successful parse the path events are properly
\* nested: each begin_path has its end_path before parse returns, no begin_path
\* while a path is open, no begin_block or end_block inside a path.
PathEventsNested ==
    (ParseDone /\ presult = POk) => PathsNested(parser.collector)

\* ---------------------------------------------------------------------------
\* C36: the state of the Process at the entry of exec
\* ---------------------------------------------------------------------------

\* a step in which Process::exec is entered and starts to run
ExecEntered == pc = "ready" /\ pc' = "run"

\* C36: whenever Process::exec is entered, ip is the halt sentinel 0 and the
\* call stack is empty, also after an earlier exec on the same Process that
\* returned an error; the RET that ends the code then halts.
ExecEntersHalted ==
    [][ExecEntered => ip = 0 /\ call_stack = << >>]_vars

\* ---------------------------------------------------------------------------
\* C37: stack_len when a Defer fires
\* ---------------------------------------------------------------------------

\* C37: during compile stack_len never goes below 0: whenever a Defer fires,
\* stack_len >= consume, so `stack_len -= consume` neither wraps nor panics.
StackLenCoversConsume ==
    (pc = "compile" /\ DeferFires(defer_stack, stack_len)) =>
        stack_len >= defer_stack[Len(defer_stack)].consume

\* ---------------------------------------------------------------------------
\* C38: termination of exec
\* ---------------------------------------------------------------------------

\* one step of the thread that is inside Process::exec or Process::compile
ExecStep ==
    \/ CompilePanic \/ CompileDefer \/ CompileValue \/ CompileFinish
    \/ StepConst \/ StepWord \/ StepSetWord \/ StepLeave \/ StepNone \/ StepRet
    \/ StepCallFunc \/ StepNativeAdd \/ StepNativeLt \/ StepNativeEither
    \/ StepNativeFunc \/ StepBadNative \/ StepInvalid \/ StepUntracked

\* programs that recurse, call functions, compile inside either, and use every
\* kind of token
TerminationPrograms ==
    { << TSet("b"), LB, TWord("either"), TInt(1), TWord("<"), TInt(2), TWord("b"), TWord("b"), RB,
         TWord("either"), TInt(1), TWord("<"), TInt(2), TWord("b"), TWord("b") >>,
      << TSet("x"), TInt(5), TWord("x") >>,
      << TWord("add"), TInt(7), TInt(8) >>,
      << TWord("+"), TInt(1) >>,
      << TFloat(5), TStr("hi") >>,
      << BP, TWord("a"), TWord("b"), EP >> }
      \cup LazyInfixPrograms \cup FuncPrograms

TerminationInit ==
    /\ source \in TerminationPrograms
    /\ CoreInit
    /\ parser = ParserNew(<< >>)
    /\ entry = "none"
    /\ ppc = "idle"
    /\ presult = [err |-> "none", char |-> ""]
    /\ parsed = NotParsed
    /\ ArenaIdle

\* run and compile are loops of one thread: a call that has been entered goes
\* on to its next step
TerminationSpec == TerminationInit /\ [][Next]_vars /\ WF_vars(ExecStep)

\* exec is executing: in run, or in the compile that either has called
InExec == pc = "run" \/ (pc = "compile" /\ c_ret = "either")

\* C38: every Process::exec terminates with a value or an error (bytes this
\* model does not track put aside): ip moves forward within a frame and every
\* call pushes onto the 64-slot call stack, so recursion ends with
\* StackOverflow.
ExecReturns == InExec ~> (Returned("exec") \/ pc = "untracked")

\* exec does not run forever: it returns, or the thread panics in compile
ExecEnds == InExec ~> (Returned("exec") \/ pc = "untracked" \/ pc = "panic")

\* ---------------------------------------------------------------------------
\* C39: objects of the arena do not overlap
\* ---------------------------------------------------------------------------

\* the stacks, blocks and strings the driver holds
Objects == { h \in DOMAIN handles : handles[h].kind \in { "stack", "block" } }

\* the words of object g (word address a is element a + 1 of the memory) are
\* as they were
Untouched(g) ==
    /\ \A a \in WordsOf(arena, handles[g]) : arena'[a + 1] = arena[a + 1]
    /\ Contents(arena', handles[g]) = Contents(arena, handles[g])

\* C39: any two objects allocated from the arena (stacks, blocks, strings)
\* occupy disjoint ranges of words; a push or a pop on one of them changes no
\* word outside that object, so the length and the contents of every other
\* object are unchanged.
ObjectsAreDisjoint ==
    /\ [](\A g, h \in Objects :
             g # h => WordsOf(arena, handles[g]) \cap WordsOf(arena, handles[h]) = {})
    /\ [][ (MemoryOp("push") \/ MemoryOp("pop"))
           => LET h == lastRet'.h
              IN  /\ \A g \in Objects \ { h } : Untouched(g)
                  /\ \A a \in (0..(Len(arena) - 1)) \ WordsOf(arena, handles[h]) :
                         arena'[a + 1] = arena[a + 1] ]_vars

\* a stack and a string are on the heap, and a push on the stack succeeded
\* while the string holds its bytes
PushedBesideString ==
    /\ lastRet.op = "push" /\ lastRet.ok
    /\ lastRet.h \notin { ParseStack, ParseBase }
    /\ Len(handles[lastRet.h].items) = 1
    /\ \E g \in Objects :
           /\ handles[g].kind = "block" /\ handles[g].addr < handles[lastRet.h].addr
           /\ Contents(arena, handles[g]) = NewString

\* ---------------------------------------------------------------------------
\* C40: the table of natives
\* ---------------------------------------------------------------------------

\* the step of run is the call of native function f
Invokes(f) ==
    LET applied(out) ==
            /\ memory' = out.m /\ ip' = out.ip
            /\ stack' = out.stack /\ call_stack' = out.call_stack
            /\ IF out.err = NoError THEN pc' = "run" /\ err' = err
               ELSE pc' = "ready" /\ err' = out.err
        p == ArrayStackPopN(stack, 3)
    IN  IF f = "add" THEN applied(NativeAdd(memory, ip + 3, stack, call_stack))
        ELSE IF f = "lt" THEN applied(NativeLt(memory, ip + 3, stack, call_stack))
        ELSE IF f = "func" THEN applied(NativeFunc(memory, ip + 3, stack, call_stack))
        ELSE /\ f = "either"
             /\ IF ~p.ok THEN pc' = "ready" /\ err' = "StackUnderflow"
                ELSE IF p.vs[1].kind # Value_BOOL
                        \/ EitherBlock(p.vs[1], p.vs[2], p.vs[3]).kind # Value_BLOCK
                THEN pc' = "ready" /\ err' = "TypeMismatch"
                ELSE pc' = "untracked" \/ stack' = p.s

\* C40: after Vm::new every name of NATIVES is bound to a NATIVE_FUNC
\* descriptor whose id is the position of that native in NATIVES (from 0) and
\* whose arity and consume are those of the table; the table of functions of
\* the Vm holds the function of each native at that position and never
\* changes; CALL_NATIVE id invokes the function at position id, and an id
\* outside the table fails with BadNativeFunctionIndex.
NativeIdIsPosition ==
    /\ [](/\ natives = [i \in DOMAIN NATIVES |-> NATIVES[i].func]
          /\ calls = 0 =>
                \A i \in DOMAIN NATIVES :
                    LET w == GetWord(memory, memory.symbols[NATIVES[i].name])
                    IN  /\ w.err = NoError
                        /\ w.v.kind = Value_NATIVE_FUNC
                        /\ HasTag(memory, w.v.data, "native")
                        /\ memory.heap[w.v.data].items
                               = << i - 1, NATIVES[i].arity, NATIVES[i].consume >>)
    /\ [][ (pc = "run" /\ Opcode = Code_CALL_NATIVE /\ Tracked(Operands))
           => IF NativeId >= Len(NATIVES)
              THEN pc' = "ready" /\ err' = "BadNativeFunctionIndex"
              ELSE Invokes(NATIVES[NativeId + 1].func) ]_vars

\* `0 < 1` has run: its CALL_NATIVE carries 3, the position of `<` in NATIVES,
\* and the call was that of lt
OperatorCalledById ==
    /\ ExecOfRoot /\ err = NoError
    /\ source = << TInt(0), TWord("<"), TInt(1) >>
    /\ memory.heap[exec_info.code].items =
           ConstCode(0) \o ConstCode(1) \o << Code_CALL_NATIVE, 3, 0, Code_RET >>
    /\ result = ValueBool(TRUE)

====
